---------------------------- MODULE Spec2Model ----------------------------
(***************************************************************************)
(* Voice front end: the RMS capture loop of VoiceHandlerV2, its playback   *)
(* gate and hand-off threads, and the global control channel of RobotState *)
(* polled by the host main loop.                                           *)
(*                                                                         *)
(* Time is in milliseconds.  RMS values and the noise floor are integers;  *)
(* the float threshold max(BASE_THRESHOLD, noise_floor * 2.5) is compared  *)
(* exactly by doubling both sides.                                         *)
(***************************************************************************)
EXTENDS Integers, Sequences, FiniteSets, TLC

\* ------------------------------------------------------------ constants
FRAME_MS == 30
MIN_SPEECH_MS == 300
END_SILENCE_MS == 400
MAX_RECORDING_MS == 15000
BASE_THRESHOLD == 120
POST_PROCESSING_COOLDOWN_MS == 1000
DEBOUNCE_MS == 1000
GATE_SLEEP_MS == 50
ERROR_SLEEP_MS == 100
SPEAKER_COOLDOWN_MS == 800
MS_PER_CHAR == 50
CONTROL_CHECK_INTERVAL_MS == 500
SAMPLE_RATE == 16000
PAUSED_SLEEP_MS == 100
IDLE_SLEEP_MS == 10
JOIN_TIMEOUT_MS == 1000

\* ------------------------------------------------------------ bounds
\* The clock value at construction (time.time() is far from the 0.0 that the
\* timestamps start at).
StartTime == 2000
\* How far the clock is followed in the gate specification.
GateHorizonMs == 400
\* How long an utterance the device is followed for in the gate specification.
GateUtteranceMs == 90
\* speak_text calls followed.
MaxSpeaks == 1
\* Silent frames the scenario's device delivers after the speech, at most.
MaxSilentFrames == 16
\* How far the clock is followed in the scenario specification.
ScenarioHorizonMs == 1000
\* How far the clock is followed in the debounce specification.
DebounceHorizonMs == 1000
\* How long an utterance the device is followed for in the debounce specification.
DebounceUtteranceMs == 750
\* Writes of the control file followed in the control specification.
MaxWrites == 2
\* How far the clock is followed in the playback specification.
SpeakHorizonMs == 2000
\* How far the clock is followed in the pause specification.
PauseHorizonMs == 200
\* How long an utterance the device is followed for in the pause specification.
PauseUtteranceMs == 750
\* How far the clock is followed in the hand-off specification.
HandoffHorizonMs == 1000
\* Silent frames the device delivers after the two utterances of the hand-off
\* specification, at most.
HandoffTailFrames == 1
\* How far the clock is followed in the stop specification.
StopHorizonMs == 100
\* Writes of the control file followed in the terminal specification.
MaxTerminalWrites == 1
\* Keys handled by TerminalControl, at most.
MaxKeys == 2
\* Frames the device delivers beyond MAX_RECORDING_MS in the long-utterance
\* specification, at most.
LongTailFrames == 1
\* Calls of speak_text followed in the two-caller specification.
MaxDuetSpeaks == 2
\* How far the clock is followed in the two-caller specification.
DuetHorizonMs == 100
\* Calls of start_listening followed.
MaxStarts == 2
\* Length of the text spoken in the mute specification.
MuteTextLen == 10
\* How far the clock is followed in the mute specification.
MuteHorizonMs == 50
\* Calls of self.audio.open followed when a failed open is tried again.
MaxRetries == 24

\* ------------------------------------------------------------ inputs
NoiseFloors == {30, 50, 60}
RmsValues == {10, 120, 125, 150, 200}
TextLens == {0, 10, 30}
Speakers == {1, 2}
\* PortAudio device indices of the host, and an index no device has
Devices == {0, 1}
MissingDevice == 7
\* None as a device index; None as self.stream
NoDevice == -1
NoStream == 0

VARIABLES
    now,                    \* time.time(), ms
    noise_floor,            \* self.noise_floor
    stop_event,             \* self._stop_event
    is_paused,              \* robot_state.is_paused
    playback_active,        \* self._playback_active
    playback_end_time,      \* self._playback_end_time
    last_processing_time,   \* self._last_processing_time
    last_callback_time,     \* self._last_callback_time
    cpc,                    \* capture thread: position in _listen_loop
    speech_ms, silence_ms, total_ms,   \* locals of _listen_loop
    buffer,                 \* local buffer, in frames
    handoffs,               \* the _process_audio threads started, in order
    loud,                   \* history: some frame read so far had rms > threshold
    last_rms,               \* history: rms of the last frame read (0: none yet)
    gated_read,             \* history: a frame was read while the gate was closed
    paused_read,            \* history: a frame was read while is_paused was true
    paused_acc,             \* history: a frame was added to the open utterance
                            \* while is_paused was true
    spc, stext,             \* speak_text callers: position, len(text)
    speaks,                 \* history: speak_text calls so far
    played,                 \* history: the last playback that ended, its text
                            \* length and the time it ended
    tape,                   \* frames the device will deliver (scenario runs only)
    fed,                    \* history: frames taken from the tape
    buf_ids,                \* history: the frames in the local buffer, each named
                            \* by its arrival number (scenario runs only)
    sent,                   \* history: the buffer handed to each thread started
    kpc,                    \* caller of VoiceHandlerV2.cleanup: position
    join_at,                \* the time listen_thread.join(timeout=1) was entered
    opc,                    \* caller of VoiceHandler.start_listening and
                            \* stop_listening: position
    starts,                 \* history: start_listening calls so far
    orphans,                \* the _listen_loop threads self.audio_thread no longer
                            \* names: the position of each
    is_muted, should_quit,  \* RobotState flags
    conv,                   \* RobotState conversation history, context and counters
    cfile,                  \* data/spark_control.txt: exists, text, id of the write
    writes,                 \* history: writes of the control file by its writers
    since_check,            \* time.time() - self.last_control_check, ms, followed
                            \* up to control_check_interval
    mpc,                    \* host thread: position in _main_loop
    command, cmd_id,        \* locals of check_global_controls (and the write read)
    v1_is_listening,        \* VoiceHandler.is_listening
    v1_thread,              \* VoiceHandler.audio_thread: position in _listen_loop
    vh_calls,               \* history: pause_listening / resume_listening calls
    intent,                 \* history: the token each write was meant as
    applied,                \* history: the commands applied for each write
    tpc,                    \* TerminalControl thread: position in the key handler
    keys,                   \* history: keys handled by TerminalControl
    read_failed,            \* history: the writes (by id) on which a read of the file
                            \* raised
    done_log,               \* history: the last two commands processed, with the
                            \* flags and vh_calls each ended with
    mic_index,              \* Config.MICROPHONE_INDEX
    default_idx,            \* the host's default input device, NoDevice if none
    max_in, def_rate,       \* maxInputChannels and defaultSampleRate of each device
    ipc,                    \* position in _init_stream
    device_candidates, di,  \* the device loop
    max_channels,
    rate_options, ri,       \* the rate loop
    channel_options, ci,    \* the channel loop
    stream,                 \* self.stream: the attempt that opened it, or NoStream
    sample_rate, channels,  \* self.sample_rate, self.channels
    open_streams,           \* streams opened and not closed
    attempts                \* history: the calls of self.audio.open, in order

capVars == <<cpc, speech_ms, silence_ms, total_ms, buffer>>
histVars == <<loud, last_rms, gated_read, paused_read, paused_acc>>
speakVars == <<spc, stext, speaks>>
flagVars == <<noise_floor, stop_event, is_paused>>
gateVars == <<playback_active, playback_end_time>>
stampVars == <<last_processing_time, last_callback_time>>
tapeVars == <<tape, fed>>
orderVars == <<buf_ids, sent>>
stopVars == <<kpc, join_at>>
ownerVars == <<opc, starts, orphans>>
envVars == <<mic_index, default_idx, max_in, def_rate>>
loopVars == <<device_candidates, di, max_channels, rate_options, ri,
              channel_options, ci>>
sessVars == <<stream, sample_rate, channels, open_streams, attempts>>
devVars == <<envVars, ipc, loopVars, sessVars>>
termVars == <<tpc, keys>>
vadCore == <<now, noise_floor, stop_event, gateVars, stampVars, capVars, handoffs,
             histVars, speakVars, tapeVars, played, orderVars, stopVars, devVars>>
vadOnly == <<vadCore, ownerVars>>
\* what the host loop, the VoiceHandler thread and the writers never touch
vadRest == <<vadOnly, termVars>>
robotVars == <<is_muted, should_quit, conv>>
fileVars == <<cfile, writes, intent>>
pollVars == <<since_check, mpc, command, cmd_id>>
v1Vars == <<v1_is_listening, v1_thread, vh_calls>>
logVars == <<applied, done_log, read_failed>>
ctlVars == <<robotVars, fileVars, pollVars, v1Vars, logVars, termVars>>
\* what the capture, speak_text and _process_audio steps never touch
restVars == <<played, orderVars, stopVars, ownerVars, ctlVars, devVars>>
notDev == <<now, flagVars, gateVars, stampVars, capVars, handoffs, histVars,
            speakVars, tapeVars, played, orderVars, stopVars, ownerVars, ctlVars>>

vars == <<now, flagVars, gateVars, stampVars, capVars, handoffs, histVars,
          speakVars, tapeVars, played, orderVars, stopVars, ownerVars, ctlVars,
          devVars>>

\* ------------------------------------------------------------ helpers
Max2(a, b) == IF a >= b THEN a ELSE b

\* twice the threshold of _listen_loop: max(BASE_THRESHOLD, noise_floor * 2.5)
Threshold2(nf) == Max2(2 * BASE_THRESHOLD, 5 * nf)

\* rms > threshold (the test that opens an utterance)
Above(rms, nf) == 2 * rms > Threshold2(nf)

\* rms < threshold (the test that counts a frame of an open utterance as silence)
Below(rms, nf) == 2 * rms < Threshold2(nf)

\* rms exceeds the threshold max(BASE_THRESHOLD, noise_floor * 2.5), as the
\* history variable loud records it
Exceeds(rms, nf) == 2 * rms > 5 * nf /\ rms > BASE_THRESHOLD

\* the playback part of _should_block_listening
GateClosed == playback_active \/ now < playback_end_time

\* _should_block_listening
ShouldBlockListening == GateClosed \/ is_paused

\* the closing test of the inner loop
Closed(sil, sp) == sil >= END_SILENCE_MS /\ sp >= MIN_SPEECH_MS

\* the cooldown speak_text sets: max(Config.SPEAKER_COOLDOWN, len(text) * 0.05)
CooldownMs(len) == Max2(SPEAKER_COOLDOWN_MS, len * MS_PER_CHAR)

\* ------------------------------------------------------------ initial state
EmptyFile == [exists |-> FALSE, text |-> <<>>, id |-> 0]

NoConversation == [history |-> 0, context |-> FALSE, total |-> 0,
                   successful |-> 0, failed |-> 0]

\* A conversation under way: two turns in the history, three interactions.
SomeConversation == [history |-> 2, context |-> TRUE, total |-> 3,
                     successful |-> 2, failed |-> 1]

\* RobotState.__init__, with a conversation under way; the host thread enters
\* _main_loop with VoiceHandler listening and registered
InitRobot ==
    /\ is_muted = FALSE
    /\ should_quit = FALSE
    /\ conv = SomeConversation
    /\ cfile = EmptyFile
    /\ writes = 0
    /\ intent = <<>>
    /\ since_check = CONTROL_CHECK_INTERVAL_MS
    /\ mpc = "loop"
    /\ command = <<>>
    /\ cmd_id = 0
    /\ v1_is_listening = TRUE
    /\ v1_thread = "test"
    /\ vh_calls = 0
    /\ applied = <<>>
    /\ done_log = <<>>
    /\ read_failed = {}
    /\ tpc = "idle" /\ keys = 0

\* _init_stream has returned: device 0, configured and default, opened at the
\* first attempt, 16000 Hz and one channel
StreamOpened ==
    /\ mic_index = 0
    /\ default_idx = 0
    /\ max_in = [d \in Devices |-> 1]
    /\ def_rate = [d \in Devices |-> 16000]
    /\ ipc = "ready"
    /\ device_candidates = <<0>> /\ di = 2
    /\ max_channels = 1 /\ rate_options = <<16000, 44100, 48000>> /\ ri = 1
    /\ channel_options = <<1>> /\ ci = 1
    /\ stream = 1 /\ sample_rate = 16000 /\ channels = 1
    /\ open_streams = {1}
    /\ attempts = <<[device |-> 0, rate |-> 16000, ch |-> 1, ok |-> TRUE]>>

\* VoiceHandlerV2.__init__ and start_listening
InitCapture ==
    /\ now = StartTime
    /\ stop_event = FALSE
    /\ playback_active = FALSE
    /\ playback_end_time = 0
    /\ last_processing_time = 0
    /\ last_callback_time = 0
    /\ cpc = "top"
    /\ speech_ms = 0 /\ silence_ms = 0 /\ total_ms = 0 /\ buffer = 0
    /\ handoffs = <<>>
    /\ loud = FALSE /\ last_rms = 0 /\ gated_read = FALSE
    /\ paused_read = FALSE /\ paused_acc = FALSE
    /\ spc = [s \in Speakers |-> "idle"]
    /\ stext = [s \in Speakers |-> 0]
    /\ speaks = 0
    /\ played = [len |-> 0, at |-> 0]
    /\ fed = 0
    /\ buf_ids = <<>> /\ sent = <<>>
    /\ kpc = "idle" /\ join_at = 0
    /\ opc = "idle" /\ starts = 0 /\ orphans = <<>>

\* The state after construction, with the noise floor calibrated
InitVad ==
    /\ InitRobot
    /\ StreamOpened
    /\ InitCapture
    /\ noise_floor \in NoiseFloors
    /\ is_paused = FALSE
    /\ tape = <<>>

\* ------------------------------------------------------------ capture loop
\* a step of the capture thread from one position to another that changes
\* nothing else
Goto(from, to) ==
    /\ cpc = from
    /\ cpc' = to
    /\ UNCHANGED <<now, flagVars, gateVars, stampVars, speech_ms, silence_ms,
                   total_ms, buffer, handoffs, histVars, speakVars>>

\* while not self._stop_event.is_set():
LoopTop == Goto("top", IF stop_event THEN "exit" ELSE "gate")

\* if self._should_block_listening(): time.sleep(0.05); continue
GateCheck == Goto("gate", IF ShouldBlockListening THEN "gate_sleep" ELSE "cooldown")

\* A cooldown test that lets the loop through after half the cooldown.
CooldownCheckHalf ==
    Goto("cooldown", IF 2 * (now - last_processing_time) < POST_PROCESSING_COOLDOWN_MS
                     THEN "cool_sleep" ELSE "read")

\* the post-processing cooldown test
CooldownCheck ==
    Goto("cooldown", IF now - last_processing_time < POST_PROCESSING_COOLDOWN_MS
                     THEN "cool_sleep" ELSE "read")

\* time.sleep(d); continue.  The clock is followed up to the horizon.
Sleep(from, d, to, horizon) ==
    /\ cpc = from
    /\ now + d <= horizon
    /\ now' = now + d
    /\ cpc' = to
    /\ UNCHANGED <<flagVars, gateVars, stampVars, speech_ms, silence_ms,
                   total_ms, buffer, handoffs, histVars, speakVars>>

\* ReadFrame with the opening test rms >= threshold
ReadFrameOpensOnEqual(rms) ==
    /\ cpc = "read"
    /\ loud' = (loud \/ Exceeds(rms, noise_floor))
    /\ last_rms' = rms
    /\ gated_read' = (gated_read \/ GateClosed)
    /\ paused_read' = (paused_read \/ is_paused)
    /\ UNCHANGED paused_acc
    /\ IF ~Below(rms, noise_floor)
       THEN /\ buffer' = 1
            /\ speech_ms' = FRAME_MS
            /\ silence_ms' = 0
            /\ total_ms' = FRAME_MS
            /\ cpc' = "acc_top"
       ELSE /\ cpc' = "top"
            /\ UNCHANGED <<buffer, speech_ms, silence_ms, total_ms>>
    /\ UNCHANGED <<now, flagVars, gateVars, stampVars, handoffs, speakVars>>

\* ReadFrame with the frame that opens the utterance not counted as speech
ReadFrameOpeningNotSpeech(rms) ==
    /\ cpc = "read"
    /\ loud' = (loud \/ Exceeds(rms, noise_floor))
    /\ last_rms' = rms
    /\ gated_read' = (gated_read \/ GateClosed)
    /\ paused_read' = (paused_read \/ is_paused)
    /\ UNCHANGED paused_acc
    /\ IF Above(rms, noise_floor)
       THEN /\ buffer' = 1
            /\ speech_ms' = 0
            /\ silence_ms' = 0
            /\ total_ms' = FRAME_MS
            /\ cpc' = "acc_top"
       ELSE /\ cpc' = "top"
            /\ UNCHANGED <<buffer, speech_ms, silence_ms, total_ms>>
    /\ UNCHANGED <<now, flagVars, gateVars, stampVars, handoffs, speakVars>>

\* chunk = self.stream.read(...) of the outer loop returns a frame of this rms
ReadFrame(rms) ==
    /\ cpc = "read"
    /\ loud' = (loud \/ Exceeds(rms, noise_floor))
    /\ last_rms' = rms
    /\ gated_read' = (gated_read \/ GateClosed)
    /\ paused_read' = (paused_read \/ is_paused)
    /\ UNCHANGED paused_acc
    /\ IF Above(rms, noise_floor)
       THEN /\ buffer' = 1
            /\ speech_ms' = FRAME_MS
            /\ silence_ms' = 0
            /\ total_ms' = FRAME_MS
            /\ cpc' = "acc_top"
       ELSE /\ cpc' = "top"
            /\ UNCHANGED <<buffer, speech_ms, silence_ms, total_ms>>
    /\ UNCHANGED <<now, flagVars, gateVars, stampVars, handoffs, speakVars>>

\* the read of the outer loop raises: print, time.sleep(0.1), continue
ReadError == Goto("read", "err_sleep")

\* while total_ms < self.MAX_RECORDING_MS and not self._stop_event.is_set():
AccTop ==
    Goto("acc_top", IF total_ms < MAX_RECORDING_MS /\ ~stop_event
                    THEN "acc_gate" ELSE "dispatch")

\* if self._should_block_listening(): time.sleep(0.05); continue   (inner loop)
AccGate == Goto("acc_gate", IF ShouldBlockListening THEN "acc_sleep" ELSE "acc_read")

\* an inner read that keeps silent frames out of the buffer
AccReadSkipsSilentFrames(rms, cap) ==
    /\ cpc = "acc_read"
    /\ total_ms < cap
    /\ LET sil == IF Below(rms, noise_floor) THEN silence_ms + FRAME_MS ELSE 0
           sp  == IF Below(rms, noise_floor) THEN speech_ms ELSE speech_ms + FRAME_MS
       IN /\ buffer' = IF Below(rms, noise_floor) THEN buffer ELSE buffer + 1
          /\ total_ms' = total_ms + FRAME_MS
          /\ silence_ms' = sil
          /\ speech_ms' = sp
          /\ cpc' = IF Closed(sil, sp) THEN "dispatch" ELSE "acc_top"
    /\ loud' = (loud \/ Exceeds(rms, noise_floor))
    /\ last_rms' = rms
    /\ gated_read' = (gated_read \/ GateClosed)
    /\ paused_read' = (paused_read \/ is_paused)
    /\ paused_acc' = (paused_acc \/ is_paused)
    /\ UNCHANGED <<now, flagVars, gateVars, stampVars, handoffs, speakVars>>

\* the read of the inner loop and the counter updates that follow it; cap is
\* how long an utterance the device is followed for
AccRead(rms, cap) ==
    /\ cpc = "acc_read"
    /\ total_ms < cap
    /\ LET sil == IF Below(rms, noise_floor) THEN silence_ms + FRAME_MS ELSE 0
           sp  == IF Below(rms, noise_floor) THEN speech_ms ELSE speech_ms + FRAME_MS
       IN /\ buffer' = buffer + 1
          /\ total_ms' = total_ms + FRAME_MS
          /\ silence_ms' = sil
          /\ speech_ms' = sp
          /\ cpc' = IF Closed(sil, sp) THEN "dispatch" ELSE "acc_top"
    /\ loud' = (loud \/ Exceeds(rms, noise_floor))
    /\ last_rms' = rms
    /\ gated_read' = (gated_read \/ GateClosed)
    /\ paused_read' = (paused_read \/ is_paused)
    /\ paused_acc' = (paused_acc \/ is_paused)
    /\ UNCHANGED <<now, flagVars, gateVars, stampVars, handoffs, speakVars>>

\* the read of the inner loop raises: nothing catches it, the thread ends
AccReadError == Goto("acc_read", "crashed")

\* a hand-off that drops an utterance which did not meet the closing test
DispatchDropsUnclosed ==
    /\ cpc = "dispatch"
    /\ IF buffer > 0 /\ Closed(silence_ms, speech_ms)
       THEN /\ last_processing_time' = now
            /\ handoffs' = Append(handoffs,
                 [pc |-> "start", started |-> now, current_time |-> 0,
                  speech_ms |-> speech_ms, silence_ms |-> silence_ms,
                  total_ms |-> total_ms, frames |-> buffer,
                  stopped |-> stop_event, paused |-> FALSE])
       ELSE UNCHANGED <<last_processing_time, handoffs>>
    /\ speech_ms' = 0 /\ silence_ms' = 0 /\ total_ms' = 0 /\ buffer' = 0
    /\ cpc' = "top"
    /\ UNCHANGED <<now, flagVars, gateVars, last_callback_time, histVars, speakVars>>

\* the hand-off with _process_audio joined: the loop goes on once the thread
\* it started has ended
DispatchJoins ==
    /\ cpc = "dispatch"
    /\ \/ /\ buffer > 0
          /\ last_processing_time' = now
          /\ handoffs' = Append(handoffs,
               [pc |-> "start", started |-> now, current_time |-> 0,
                speech_ms |-> speech_ms, silence_ms |-> silence_ms,
                total_ms |-> total_ms, frames |-> buffer,
                stopped |-> stop_event, paused |-> FALSE])
          /\ cpc' = "dispatch"
       \/ /\ buffer = 0
          /\ handoffs # <<>>
          /\ handoffs[Len(handoffs)].pc \in {"blocked", "debounced", "delivered", "failed"}
          /\ cpc' = "top"
          /\ UNCHANGED <<last_processing_time, handoffs>>
    /\ speech_ms' = 0 /\ silence_ms' = 0 /\ total_ms' = 0 /\ buffer' = 0
    /\ UNCHANGED <<now, flagVars, gateVars, last_callback_time, histVars, speakVars>>

\* a hand-off that drops the open utterance once the stop event is set
DispatchDropsStopped ==
    /\ cpc = "dispatch"
    /\ IF buffer > 0 /\ ~stop_event
       THEN /\ last_processing_time' = now
            /\ handoffs' = Append(handoffs,
                 [pc |-> "start", started |-> now, current_time |-> 0,
                  speech_ms |-> speech_ms, silence_ms |-> silence_ms,
                  total_ms |-> total_ms, frames |-> buffer,
                  stopped |-> stop_event, paused |-> FALSE])
       ELSE UNCHANGED <<last_processing_time, handoffs>>
    /\ speech_ms' = 0 /\ silence_ms' = 0 /\ total_ms' = 0 /\ buffer' = 0
    /\ cpc' = "top"
    /\ UNCHANGED <<now, flagVars, gateVars, last_callback_time, histVars, speakVars>>

\* if buffer: ... self._last_processing_time = time.time(); Thread(...).start()
Dispatch ==
    /\ cpc = "dispatch"
    /\ IF buffer > 0
       THEN /\ last_processing_time' = now
            /\ handoffs' = Append(handoffs,
                 [pc |-> "start", started |-> now, current_time |-> 0,
                  speech_ms |-> speech_ms, silence_ms |-> silence_ms,
                  total_ms |-> total_ms, frames |-> buffer,
                  stopped |-> stop_event, paused |-> FALSE])
       ELSE UNCHANGED <<last_processing_time, handoffs>>
    /\ speech_ms' = 0 /\ silence_ms' = 0 /\ total_ms' = 0 /\ buffer' = 0
    /\ cpc' = "top"
    /\ UNCHANGED <<now, flagVars, gateVars, last_callback_time, histVars, speakVars>>

\* stop_listening: self._stop_event.set()
StopListening ==
    /\ ~stop_event
    /\ stop_event' = TRUE
    /\ UNCHANGED <<now, noise_floor, is_paused, gateVars, stampVars, capVars,
                   handoffs, histVars, speakVars>>

\* RobotState.toggle_pause with no voice handler registered
TogglePauseBare ==
    /\ is_paused' = ~is_paused
    /\ UNCHANGED <<now, noise_floor, stop_event, gateVars, stampVars, capVars,
                   handoffs, histVars, speakVars>>

\* ------------------------------------------------------------ speak_text
SpeakStep(s, from, to) ==
    /\ spc[s] = from
    /\ spc' = [spc EXCEPT ![s] = to]

\* a caller enters speak_text(text) with len(text) = len
SpeakCall(s, len) ==
    /\ speaks < MaxSpeaks
    /\ SpeakStep(s, "idle", "check")
    /\ stext' = [stext EXCEPT ![s] = len]
    /\ speaks' = speaks + 1
    /\ UNCHANGED <<now, flagVars, gateVars, stampVars, capVars, handoffs, histVars>>

\* if self._playback_active or not text: return
SpeakCheck(s) ==
    /\ SpeakStep(s, "check", IF playback_active \/ stext[s] = 0 THEN "idle" ELSE "set")
    /\ UNCHANGED <<now, flagVars, gateVars, stampVars, capVars, handoffs, histVars,
                   stext, speaks>>

\* self._playback_active = True
SpeakSet(s) ==
    /\ SpeakStep(s, "set", "playing")
    /\ playback_active' = TRUE
    /\ UNCHANGED <<now, flagVars, playback_end_time, stampVars, capVars, handoffs,
                   histVars, stext, speaks>>

\* _simulate_speech: playback runs (while get_busy(): time.sleep(0.05))
SpeakPlaying(s, horizon) ==
    /\ spc[s] = "playing"
    /\ now + GATE_SLEEP_MS <= horizon
    /\ now' = now + GATE_SLEEP_MS
    /\ UNCHANGED <<flagVars, gateVars, stampVars, capVars, handoffs, histVars,
                   speakVars>>

\* _simulate_speech returns (it raises nothing: its except clause catches);
\* the finally clause of speak_text begins
SpeakFinished(s) ==
    /\ SpeakStep(s, "playing", "fin_stop")
    /\ UNCHANGED <<now, flagVars, gateVars, stampVars, capVars, handoffs, histVars,
                   stext, speaks>>

\* finally: pygame.mixer.music.stop() returns
SpeakStop(s) ==
    /\ SpeakStep(s, "fin_stop", "fin_active")
    /\ UNCHANGED <<now, flagVars, gateVars, stampVars, capVars, handoffs, histVars,
                   stext, speaks>>

\* finally: pygame.mixer.music.stop() raises pygame.error (the mixer is not
\* initialized: _init_stream only prints when pygame.mixer.init fails); the
\* exception leaves speak_text before lines 164-165
SpeakStopRaises(s) ==
    /\ SpeakStep(s, "fin_stop", "raised")
    /\ UNCHANGED <<now, flagVars, gateVars, stampVars, capVars, handoffs, histVars,
                   stext, speaks>>

\* finally: self._playback_active = False
SpeakFinActive(s) ==
    /\ SpeakStep(s, "fin_active", "fin_end")
    /\ playback_active' = FALSE
    /\ UNCHANGED <<now, flagVars, playback_end_time, stampVars, capVars, handoffs,
                   histVars, stext, speaks>>

\* finally: self._playback_end_time = time.time() + max(cooldown, len(text) * 0.05)
SpeakFinEnd(s) ==
    /\ SpeakStep(s, "fin_end", "idle")
    /\ playback_end_time' = now + CooldownMs(stext[s])
    /\ UNCHANGED <<now, flagVars, playback_active, stampVars, capVars, handoffs,
                   histVars, stext, speaks>>

\* History: the playback of speaker s ends now.
RecordPlayed(s) == played' = [len |-> stext[s], at |-> now]

\* ------------------------------------------------------------ _process_audio
\* a step of hand-off thread i
HandoffStep(i, from, to) ==
    /\ i \in DOMAIN handoffs
    /\ handoffs[i].pc = from
    /\ handoffs' = [handoffs EXCEPT ![i].pc = to]

\* if self._should_block_listening(): return
HandoffGate(i) ==
    /\ HandoffStep(i, "start", IF ShouldBlockListening THEN "blocked" ELSE "debounce")
    /\ UNCHANGED <<now, flagVars, gateVars, stampVars, capVars, histVars, speakVars>>

\* current_time = time.time(); if current_time - self._last_callback_time < 1.0: return
HandoffDebounce(i) ==
    /\ i \in DOMAIN handoffs
    /\ handoffs[i].pc = "debounce"
    /\ handoffs' = [handoffs EXCEPT
          ![i].current_time = now,
          ![i].pc = IF now - last_callback_time < DEBOUNCE_MS
                    THEN "debounced" ELSE "recognize"]
    /\ UNCHANGED <<now, flagVars, gateVars, stampVars, capVars, histVars, speakVars>>

\* text = self.recognizer.recognize_google(audio) returns a text;
\* self._last_callback_time = current_time; self.callback(text)
HandoffDeliver(i) ==
    /\ i \in DOMAIN handoffs
    /\ handoffs[i].pc = "recognize"
    /\ handoffs' = [handoffs EXCEPT ![i].pc = "delivered", ![i].paused = is_paused]
    /\ last_callback_time' = handoffs[i].current_time
    /\ UNCHANGED <<now, flagVars, gateVars, last_processing_time, capVars,
                   histVars, speakVars>>

\* a failed recognition that still stamps the debounce time
HandoffFailStamps(i) ==
    /\ HandoffStep(i, "recognize", "failed")
    /\ last_callback_time' = handoffs[i].current_time
    /\ UNCHANGED <<now, flagVars, gateVars, last_processing_time, capVars,
                   histVars, speakVars>>

\* recognize_google returns no text or raises (UnknownValueError, RequestError)
HandoffFail(i) ==
    /\ HandoffStep(i, "recognize", "failed")
    /\ UNCHANGED <<now, flagVars, gateVars, stampVars, capVars, histVars, speakVars>>

\* ------------------------------------------------------------ debounce specification
\* The capture thread and the hand-off threads it starts, with noise floor 50
\* and frames of RMS 10 and 200; utterances are followed for DebounceUtteranceMs.
DebounceHorizon == StartTime + DebounceHorizonMs

InitDebounce == InitVad /\ noise_floor = 50

NextDebounce ==
    \/ (LoopTop /\ UNCHANGED <<tapeVars, restVars>>)
    \/ (GateCheck /\ UNCHANGED <<tapeVars, restVars>>)
    \/ (CooldownCheck /\ UNCHANGED <<tapeVars, restVars>>)
    \/ (Sleep("cool_sleep", GATE_SLEEP_MS, "top", DebounceHorizon) /\ UNCHANGED <<tapeVars, restVars>>)
    \/ (\E rms \in {10, 200} : ReadFrame(rms) /\ UNCHANGED <<tapeVars, restVars>>)
    \/ (AccTop /\ UNCHANGED <<tapeVars, restVars>>)
    \/ (AccGate /\ UNCHANGED <<tapeVars, restVars>>)
    \/ (\E rms \in {10, 200} : AccRead(rms, DebounceUtteranceMs) /\ UNCHANGED <<tapeVars, restVars>>)
    \/ (Dispatch /\ UNCHANGED <<tapeVars, restVars>>)
    \/ (\E i \in DOMAIN handoffs : HandoffGate(i) /\ UNCHANGED <<tapeVars, restVars>>)
    \/ (\E i \in DOMAIN handoffs : HandoffDebounce(i) /\ UNCHANGED <<tapeVars, restVars>>)
    \/ (\E i \in DOMAIN handoffs : HandoffDeliver(i) /\ UNCHANGED <<tapeVars, restVars>>)
    \/ (\E i \in DOMAIN handoffs : HandoffFail(i) /\ UNCHANGED <<tapeVars, restVars>>)

SpecDebounce == InitDebounce /\ [][NextDebounce]_vars

\* ------------------------------------------------------------ scenario specification
\* The capture thread alone on a device that delivers 10 frames of RMS 200 and
\* then up to MaxSilentFrames frames of RMS 10, with noise floor 50.
Repeat(x, n) == [i \in 1..n |-> x]

ScenarioHorizon == StartTime + ScenarioHorizonMs

InitScenario ==
    /\ InitRobot
    /\ StreamOpened
    /\ InitCapture
    /\ noise_floor = 50
    /\ is_paused = FALSE
    /\ \E k \in 0..MaxSilentFrames : tape = Repeat(200, 10) \o Repeat(10, k)

\* the device delivers the next frame of the tape
TakeFrame ==
    /\ tape # <<>>
    /\ tape' = Tail(tape)
    /\ fed' = fed + 1

NextScenario ==
    \/ (LoopTop /\ UNCHANGED <<tapeVars, restVars>>)
    \/ (GateCheck /\ UNCHANGED <<tapeVars, restVars>>)
    \/ (CooldownCheck /\ UNCHANGED <<tapeVars, restVars>>)
    \/ (Sleep("cool_sleep", GATE_SLEEP_MS, "top", ScenarioHorizon) /\ UNCHANGED <<tapeVars, restVars>>)
    \/ (TakeFrame /\ ReadFrame(Head(tape)) /\ UNCHANGED restVars)
    \/ (AccTop /\ UNCHANGED <<tapeVars, restVars>>)
    \/ (AccGate /\ UNCHANGED <<tapeVars, restVars>>)
    \/ (TakeFrame /\ AccRead(Head(tape), MAX_RECORDING_MS) /\ UNCHANGED restVars)
    \/ (Dispatch /\ UNCHANGED <<tapeVars, restVars>>)

SpecScenario == InitScenario /\ [][NextScenario]_vars

\* ------------------------------------------------------------ long-utterance specification
\* The capture thread alone on a device that delivers n frames of RMS 200 and
\* then frames of RMS 10, MaxFrames + k frames in all: with n = 5 the speech is
\* too short for the closing test, with n = 10 the utterance closes, with
\* n = MaxFrames the speech never stops.
MaxFrames == MAX_RECORDING_MS \div FRAME_MS

InitLong ==
    /\ InitRobot
    /\ StreamOpened
    /\ InitCapture
    /\ noise_floor = 50
    /\ is_paused = FALSE
    /\ \E n \in {5, 10, MaxFrames}, k \in 0..LongTailFrames :
          tape = Repeat(200, n) \o Repeat(10, MaxFrames + k - n)

SpecLong == InitLong /\ [][NextScenario]_vars

\* ------------------------------------------------------------ gate specification
\* The capture thread, one speak_text caller, pause toggles and stop_listening;
\* utterances are followed for GateUtteranceMs.
GateHorizon == StartTime + GateHorizonMs

NextGate ==
    \/ (LoopTop /\ UNCHANGED <<tapeVars, restVars>>)
    \/ (GateCheck /\ UNCHANGED <<tapeVars, restVars>>)
    \/ (CooldownCheck /\ UNCHANGED <<tapeVars, restVars>>)
    \/ (Sleep("gate_sleep", GATE_SLEEP_MS, "top", GateHorizon) /\ UNCHANGED <<tapeVars, restVars>>)
    \/ (Sleep("err_sleep", ERROR_SLEEP_MS, "top", GateHorizon) /\ UNCHANGED <<tapeVars, restVars>>)
    \/ (Sleep("acc_sleep", GATE_SLEEP_MS, "acc_top", GateHorizon) /\ UNCHANGED <<tapeVars, restVars>>)
    \/ (\E rms \in RmsValues : ReadFrame(rms) /\ UNCHANGED <<tapeVars, restVars>>)
    \/ (ReadError /\ UNCHANGED <<tapeVars, restVars>>)
    \/ (AccTop /\ UNCHANGED <<tapeVars, restVars>>)
    \/ (AccGate /\ UNCHANGED <<tapeVars, restVars>>)
    \/ (\E rms \in RmsValues : AccRead(rms, GateUtteranceMs) /\ UNCHANGED <<tapeVars, restVars>>)
    \/ (AccReadError /\ UNCHANGED <<tapeVars, restVars>>)
    \/ (Dispatch /\ UNCHANGED <<tapeVars, restVars>>)
    \/ (StopListening /\ UNCHANGED <<tapeVars, restVars>>)
    \/ (TogglePauseBare /\ UNCHANGED <<tapeVars, restVars>>)
    \/ (\E len \in TextLens : SpeakCall(1, len) /\ UNCHANGED <<tapeVars, restVars>>)
    \/ (SpeakCheck(1) /\ UNCHANGED <<tapeVars, restVars>>)
    \/ (SpeakSet(1) /\ UNCHANGED <<tapeVars, restVars>>)
    \/ (SpeakPlaying(1, GateHorizon) /\ UNCHANGED <<tapeVars, restVars>>)
    \/ (SpeakFinished(1) /\ UNCHANGED <<tapeVars, restVars>>)
    \/ (SpeakStop(1) /\ UNCHANGED <<tapeVars, restVars>>)
    \/ (SpeakFinActive(1) /\ UNCHANGED <<tapeVars, restVars>>)
    \/ (SpeakFinEnd(1) /\ UNCHANGED <<tapeVars, restVars>>)

Spec == InitVad /\ [][NextGate]_vars

\* ------------------------------------------------------------ playback specification
SpeakHorizon == StartTime + SpeakHorizonMs

\* speak_text called by one caller at a time, with the capture loop at its gate
\* and a silent room
NextSpeak ==
    \/ (LoopTop /\ UNCHANGED <<tapeVars, restVars>>)
    \/ (GateCheck /\ UNCHANGED <<tapeVars, restVars>>)
    \/ (CooldownCheck /\ UNCHANGED <<tapeVars, restVars>>)
    \/ (Sleep("gate_sleep", GATE_SLEEP_MS, "top", SpeakHorizon) /\ UNCHANGED <<tapeVars, restVars>>)
    \/ (ReadFrame(10) /\ UNCHANGED <<tapeVars, restVars>>)
    \/ (\E len \in TextLens : SpeakCall(1, len) /\ UNCHANGED <<tapeVars, restVars>>)
    \/ (SpeakCheck(1) /\ UNCHANGED <<tapeVars, restVars>>)
    \/ (SpeakSet(1) /\ UNCHANGED <<tapeVars, restVars>>)
    \/ (SpeakPlaying(1, SpeakHorizon) /\ UNCHANGED <<tapeVars, restVars>>)
    \/ (SpeakFinished(1) /\ RecordPlayed(1) /\ UNCHANGED <<tapeVars, orderVars, stopVars, ownerVars, ctlVars, devVars>>)
    \/ (SpeakStop(1) /\ UNCHANGED <<tapeVars, restVars>>)
    \/ (SpeakStopRaises(1) /\ UNCHANGED <<tapeVars, restVars>>)
    \/ (SpeakFinActive(1) /\ UNCHANGED <<tapeVars, restVars>>)
    \/ (SpeakFinEnd(1) /\ UNCHANGED <<tapeVars, restVars>>)

InitSpeak == InitVad /\ noise_floor = 50

SpecSpeak == InitSpeak /\ [][NextSpeak]_vars

\* ------------------------------------------------------------ two-caller specification
DuetHorizon == StartTime + DuetHorizonMs

\* a caller enters speak_text(text) with len(text) = len, limit calls at most
SpeakCallBy(s, len, limit) ==
    /\ speaks < limit
    /\ SpeakStep(s, "idle", "check")
    /\ stext' = [stext EXCEPT ![s] = len]
    /\ speaks' = speaks + 1
    /\ UNCHANGED <<now, flagVars, gateVars, stampVars, capVars, handoffs, histVars>>

\* speak_text called from two threads (two callbacks of _process_audio threads)
NextDuet ==
    \E s \in Speakers :
        \/ (\E len \in TextLens : SpeakCallBy(s, len, MaxDuetSpeaks)
                                    /\ UNCHANGED <<tapeVars, restVars>>)
        \/ (SpeakCheck(s) /\ UNCHANGED <<tapeVars, restVars>>)
        \/ (SpeakSet(s) /\ UNCHANGED <<tapeVars, restVars>>)
        \/ (SpeakPlaying(s, DuetHorizon) /\ UNCHANGED <<tapeVars, restVars>>)
        \/ (SpeakFinished(s) /\ UNCHANGED <<tapeVars, restVars>>)
        \/ (SpeakStop(s) /\ UNCHANGED <<tapeVars, restVars>>)
        \/ (SpeakStopRaises(s) /\ UNCHANGED <<tapeVars, restVars>>)
        \/ (SpeakFinActive(s) /\ UNCHANGED <<tapeVars, restVars>>)
        \/ (SpeakFinEnd(s) /\ UNCHANGED <<tapeVars, restVars>>)

SpecDuet == InitSpeak /\ [][NextDuet]_vars

\* ------------------------------------------------------------ pause specification
PauseHorizon == StartTime + PauseHorizonMs

\* The capture loop and its hand-offs, with is_paused toggled at any moment.
NextPause ==
    \/ (LoopTop /\ UNCHANGED <<tapeVars, restVars>>)
    \/ (GateCheck /\ UNCHANGED <<tapeVars, restVars>>)
    \/ (CooldownCheck /\ UNCHANGED <<tapeVars, restVars>>)
    \/ (Sleep("gate_sleep", GATE_SLEEP_MS, "top", PauseHorizon) /\ UNCHANGED <<tapeVars, restVars>>)
    \/ (Sleep("cool_sleep", GATE_SLEEP_MS, "top", PauseHorizon) /\ UNCHANGED <<tapeVars, restVars>>)
    \/ (Sleep("acc_sleep", GATE_SLEEP_MS, "acc_top", PauseHorizon) /\ UNCHANGED <<tapeVars, restVars>>)
    \/ (\E rms \in {10, 200} : ReadFrame(rms) /\ UNCHANGED <<tapeVars, restVars>>)
    \/ (AccTop /\ UNCHANGED <<tapeVars, restVars>>)
    \/ (AccGate /\ UNCHANGED <<tapeVars, restVars>>)
    \/ (\E rms \in {10, 200} : AccRead(rms, PauseUtteranceMs) /\ UNCHANGED <<tapeVars, restVars>>)
    \/ (Dispatch /\ UNCHANGED <<tapeVars, restVars>>)
    \/ (TogglePauseBare /\ UNCHANGED <<tapeVars, restVars>>)
    \/ (\E i \in DOMAIN handoffs : HandoffGate(i) /\ UNCHANGED <<tapeVars, restVars>>)
    \/ (\E i \in DOMAIN handoffs : HandoffDebounce(i) /\ UNCHANGED <<tapeVars, restVars>>)
    \/ (\E i \in DOMAIN handoffs : HandoffDeliver(i) /\ UNCHANGED <<tapeVars, restVars>>)
    \/ (\E i \in DOMAIN handoffs : HandoffFail(i) /\ UNCHANGED <<tapeVars, restVars>>)

InitPause == InitVad /\ noise_floor = 50

SpecPause == InitPause /\ [][NextPause]_vars

\* ------------------------------------------------------------ hand-off specification
\* The capture thread and the _process_audio threads it starts, on a device that
\* delivers two utterances, each 10 frames of RMS 200 and 14 of RMS 10, and then
\* up to HandoffTailFrames frames of RMS 10.  Every frame is named by its
\* arrival number.  recognize_google may return, fail, or never return.
HandoffHorizon == StartTime + HandoffHorizonMs

InitHandoff ==
    /\ InitRobot
    /\ StreamOpened
    /\ InitCapture
    /\ noise_floor = 50
    /\ is_paused = FALSE
    /\ \E k \in 0..HandoffTailFrames :
          tape = Repeat(200, 10) \o Repeat(10, 14) \o Repeat(200, 10) \o Repeat(10, 14 + k)

\* buffer = bytearray(chunk), when the frame read opens an utterance
StartBuffer ==
    buf_ids' = IF Above(Head(tape), noise_floor) THEN <<fed + 1>> ELSE buf_ids

\* buffer.extend(chunk), with the next frame at the front of the buffer
ExtendBufferFront ==
    buf_ids' = <<fed + 1>> \o buf_ids

\* buffer.extend(chunk)
ExtendBuffer ==
    buf_ids' = Append(buf_ids, fed + 1)

\* audio_data = sr.AudioData(bytes(buffer), ...); Thread(args=(audio_data,)).start()
SendBuffer ==
    /\ sent' = IF buffer > 0 THEN Append(sent, buf_ids) ELSE sent
    /\ buf_ids' = <<>>

\* the steps of the capture thread
CaptureHandoff ==
    \/ (LoopTop /\ UNCHANGED <<tapeVars, restVars>>)
    \/ (GateCheck /\ UNCHANGED <<tapeVars, restVars>>)
    \/ (CooldownCheck /\ UNCHANGED <<tapeVars, restVars>>)
    \/ (Sleep("cool_sleep", GATE_SLEEP_MS, "top", HandoffHorizon) /\ UNCHANGED <<tapeVars, restVars>>)
    \/ (TakeFrame /\ ReadFrame(Head(tape)) /\ StartBuffer
           /\ UNCHANGED <<sent, played, stopVars, ownerVars, ctlVars, devVars>>)
    \/ (AccTop /\ UNCHANGED <<tapeVars, restVars>>)
    \/ (AccGate /\ UNCHANGED <<tapeVars, restVars>>)
    \/ (TakeFrame /\ AccRead(Head(tape), MAX_RECORDING_MS) /\ ExtendBuffer
           /\ UNCHANGED <<sent, played, stopVars, ownerVars, ctlVars, devVars>>)
    \/ (Dispatch /\ SendBuffer /\ UNCHANGED <<tapeVars, played, stopVars, ownerVars, ctlVars, devVars>>)

\* the steps of the _process_audio threads
ThreadsHandoff ==
    \/ (\E i \in DOMAIN handoffs : HandoffGate(i) /\ UNCHANGED <<tapeVars, restVars>>)
    \/ (\E i \in DOMAIN handoffs : HandoffDebounce(i) /\ UNCHANGED <<tapeVars, restVars>>)
    \/ (\E i \in DOMAIN handoffs : HandoffDeliver(i) /\ UNCHANGED <<tapeVars, restVars>>)
    \/ (\E i \in DOMAIN handoffs : HandoffFail(i) /\ UNCHANGED <<tapeVars, restVars>>)

NextHandoff == CaptureHandoff \/ ThreadsHandoff

SpecHandoff == InitHandoff /\ [][NextHandoff]_vars

\* The capture thread keeps being scheduled; nothing is assumed of the
\* _process_audio threads, whose recognize_google call may never return.
FairSpecHandoff == SpecHandoff /\ WF_vars(CaptureHandoff)

\* ------------------------------------------------------------ control tokens
\* Text is a sequence of one-character strings.
PAUSE == <<"P", "A", "U", "S", "E">>
UNPAUSE == <<"U", "N", "P", "A", "U", "S", "E">>
MUTE == <<"M", "U", "T", "E">>
UNMUTE == <<"U", "N", "M", "U", "T", "E">>
RESET == <<"R", "E", "S", "E", "T">>
QUIT == <<"Q", "U", "I", "T">>

Tokens == {PAUSE, UNPAUSE, MUTE, UNMUTE, RESET, QUIT}

UpperOf == [c \in {"p", "a", "u", "s", "e", "n", "m", "t", "r", "q", "i"} |->
              CASE c = "p" -> "P" [] c = "a" -> "A" [] c = "u" -> "U"
                [] c = "s" -> "S" [] c = "e" -> "E" [] c = "n" -> "N"
                [] c = "m" -> "M" [] c = "t" -> "T" [] c = "r" -> "R"
                [] c = "q" -> "Q" [] c = "i" -> "I"]

LowerOf == [c \in {"P", "A", "U", "S", "E", "N", "M", "T", "R", "Q", "I"} |->
              CHOOSE l \in DOMAIN UpperOf : UpperOf[l] = c]

Whitespace == {" ", "\n", "\t", "\r"}

\* str.upper()
Upper(text) ==
    [i \in 1..Len(text) |->
        IF text[i] \in DOMAIN UpperOf THEN UpperOf[text[i]] ELSE text[i]]

\* str.strip()
RECURSIVE LStrip(_)
LStrip(text) ==
    IF text # <<>> /\ Head(text) \in Whitespace THEN LStrip(Tail(text)) ELSE text

RECURSIVE RStrip(_)
RStrip(text) ==
    IF text # <<>> /\ text[Len(text)] \in Whitespace
    THEN RStrip(SubSeq(text, 1, Len(text) - 1))
    ELSE text

Strip(text) == RStrip(LStrip(text))

\* A reading that keeps the casing of the file's text.
NormalizeKeepsCase(text) == Strip(text)

\* f.read().strip().upper()
Normalize(text) == Upper(Strip(text))

\* The token written with the letters at the positions in mask in lower case.
Casing(token, mask) ==
    [i \in 1..Len(token) |-> IF i \in mask THEN LowerOf[token[i]] ELSE token[i]]

\* ------------------------------------------------------------ host loop
\* One step of the host thread that touches none of the RobotState flags.
MainStep(from, to) ==
    /\ mpc = from
    /\ mpc' = to

\* History: the last two commands processed, each with the flags it left.
Logged(cmd, p, m, q, calls) ==
    LET entry == [cmd |-> cmd, is_paused |-> p, is_muted |-> m,
                  should_quit |-> q, vh_calls |-> calls]
    IN  IF done_log = <<>> THEN <<entry>> ELSE <<done_log[Len(done_log)], entry>>

\* time.sleep(d) in the host loop
MainSleep(from, d) ==
    /\ MainStep(from, "loop")
    /\ since_check' = IF since_check + d >= CONTROL_CHECK_INTERVAL_MS
                      THEN CONTROL_CHECK_INTERVAL_MS
                      ELSE since_check + d
    /\ UNCHANGED <<vadRest, is_paused, robotVars, fileVars, command, cmd_id,
                   v1Vars, logVars>>

\* check_global_controls: the rate limit
PollTime ==
    /\ mpc = "loop"
    /\ IF since_check < CONTROL_CHECK_INTERVAL_MS
       THEN mpc' = "paused_check" /\ UNCHANGED since_check
       ELSE mpc' = "read" /\ since_check' = 0
    /\ UNCHANGED <<vadRest, is_paused, robotVars, fileVars, command, cmd_id,
                   v1Vars, logVars>>

\* check_global_controls: os.path.exists and f.read().strip().upper()
PollRead ==
    /\ mpc = "read"
    /\ IF cfile.exists
       THEN /\ command' = Normalize(cfile.text)
            /\ cmd_id' = cfile.id
            /\ mpc' = IF Normalize(cfile.text) # <<>> THEN "clear" ELSE "paused_check"
       ELSE /\ mpc' = "paused_check"
            /\ UNCHANGED <<command, cmd_id>>
    /\ UNCHANGED <<vadRest, is_paused, robotVars, fileVars, since_check, v1Vars,
                   logVars>>

\* A failed read that leaves the control file empty.
PollReadErrorDropsCommand ==
    /\ MainStep("read", "paused_check")
    /\ cfile.exists
    /\ read_failed' = read_failed \cup ({cfile.id} \ {0})
    /\ cfile' = [exists |-> TRUE, text |-> <<>>, id |-> 0]
    /\ UNCHANGED <<vadRest, is_paused, robotVars, writes, intent, since_check,
                   command, cmd_id, v1Vars, applied, done_log>>

\* check_global_controls: the read raises, the except clause logs
PollReadError ==
    /\ MainStep("read", "paused_check")
    /\ cfile.exists
    /\ read_failed' = read_failed \cup ({cfile.id} \ {0})
    /\ UNCHANGED <<vadRest, is_paused, robotVars, fileVars, since_check, command,
                   cmd_id, v1Vars, applied, done_log>>

\* A poll that leaves the text in the file.
PollClearKeepsText ==
    /\ MainStep("clear", "apply")
    /\ UNCHANGED <<vadRest, is_paused, robotVars, fileVars, since_check, command,
                   cmd_id, v1Vars, logVars>>

\* check_global_controls: open(self.control_file, "w"); f.write("")
PollClear ==
    /\ MainStep("clear", "apply")
    /\ cfile' = [exists |-> TRUE, text |-> <<>>, id |-> 0]
    /\ UNCHANGED <<vadRest, is_paused, robotVars, writes, intent, since_check,
                   command, cmd_id, v1Vars, logVars>>

\* check_global_controls: the clearing write raises, the except clause logs
PollClearError ==
    /\ MainStep("clear", "paused_check")
    /\ UNCHANGED <<vadRest, is_paused, robotVars, fileVars, since_check, command,
                   cmd_id, v1Vars, logVars>>

\* A command processor that toggles on every PAUSE and UNPAUSE.
WantsPauseToggleUnguarded(cmd) == cmd \in {PAUSE, UNPAUSE}

\* _process_global_command: the guards of the PAUSE and UNPAUSE branches
WantsPauseToggle(cmd) ==
    \/ cmd = PAUSE /\ ~is_paused
    \/ cmd = UNPAUSE /\ is_paused

\* _process_global_command: the guards of the MUTE and UNMUTE branches
WantsMuteToggle(cmd) ==
    \/ cmd = MUTE /\ ~is_muted
    \/ cmd = UNMUTE /\ is_muted

\* A command processor that takes every text outside the vocabulary for QUIT.
ProcessGlobalCommandElseQuits ==
    /\ mpc = "apply"
    /\ applied' = Append(applied, [id |-> cmd_id, cmd |-> command])
    /\ IF WantsPauseToggle(command)
       THEN /\ mpc' = "toggle"
            /\ UNCHANGED <<robotVars, done_log>>
       ELSE /\ mpc' = "paused_check"
            /\ is_muted' = IF WantsMuteToggle(command) THEN ~is_muted ELSE is_muted
            /\ conv' = IF command = RESET THEN NoConversation ELSE conv
            /\ should_quit' = IF command \notin Tokens \ {QUIT} THEN TRUE ELSE should_quit
            /\ done_log' = Logged(command, is_paused, is_muted', should_quit',
                                  vh_calls)
    /\ UNCHANGED <<vadRest, is_paused, fileVars, since_check, command, cmd_id,
                   v1Vars, read_failed>>

\* A command processor whose RESET also unmutes.
ProcessGlobalCommandResetUnmutes ==
    /\ mpc = "apply"
    /\ applied' = Append(applied, [id |-> cmd_id, cmd |-> command])
    /\ IF WantsPauseToggle(command)
       THEN /\ mpc' = "toggle"
            /\ UNCHANGED <<robotVars, done_log>>
       ELSE /\ mpc' = "paused_check"
            /\ is_muted' = IF WantsMuteToggle(command) THEN ~is_muted
                         ELSE IF command = RESET THEN FALSE ELSE is_muted
            /\ conv' = IF command = RESET THEN NoConversation ELSE conv
            /\ should_quit' = IF command = QUIT THEN TRUE ELSE should_quit
            /\ done_log' = Logged(command, is_paused, is_muted', should_quit',
                                  vh_calls)
    /\ UNCHANGED <<vadRest, is_paused, fileVars, since_check, command, cmd_id,
                   v1Vars, read_failed>>

\* A command processor whose RESET withdraws a quit request.
ProcessGlobalCommandResetClearsQuit ==
    /\ mpc = "apply"
    /\ applied' = Append(applied, [id |-> cmd_id, cmd |-> command])
    /\ IF WantsPauseToggle(command)
       THEN /\ mpc' = "toggle"
            /\ UNCHANGED <<robotVars, done_log>>
       ELSE /\ mpc' = "paused_check"
            /\ is_muted' = IF WantsMuteToggle(command) THEN ~is_muted ELSE is_muted
            /\ conv' = IF command = RESET THEN NoConversation ELSE conv
            /\ should_quit' = IF command = QUIT THEN TRUE
                            ELSE IF command = RESET THEN FALSE ELSE should_quit
            /\ done_log' = Logged(command, is_paused, is_muted', should_quit',
                                  vh_calls)
    /\ UNCHANGED <<vadRest, is_paused, fileVars, since_check, command, cmd_id,
                   v1Vars, read_failed>>

\* _process_global_command, up to the call of toggle_pause where there is one;
\* toggle_mute and reset_conversation touch nothing another thread acts on
ProcessGlobalCommand ==
    /\ mpc = "apply"
    /\ applied' = Append(applied, [id |-> cmd_id, cmd |-> command])
    /\ IF WantsPauseToggle(command)
       THEN /\ mpc' = "toggle"
            /\ UNCHANGED <<robotVars, done_log>>
       ELSE /\ mpc' = "paused_check"
            /\ is_muted' = IF WantsMuteToggle(command) THEN ~is_muted ELSE is_muted
            /\ conv' = IF command = RESET THEN NoConversation ELSE conv
            /\ should_quit' = IF command = QUIT THEN TRUE ELSE should_quit
            /\ done_log' = Logged(command, is_paused, is_muted', should_quit',
                                  vh_calls)
    /\ UNCHANGED <<vadRest, is_paused, fileVars, since_check, command, cmd_id,
                   v1Vars, read_failed>>

\* toggle_pause: self.is_paused = not self.is_paused
TogglePause ==
    /\ mpc = "toggle"
    /\ is_paused' = ~is_paused
    /\ mpc' = IF is_paused' THEN "pause_call" ELSE "resume_call"
    /\ UNCHANGED <<vadRest, robotVars, fileVars, since_check, command, cmd_id,
                   v1Vars, logVars>>

\* VoiceHandler.pause_listening
PauseListening ==
    /\ MainStep("pause_call", "paused_check")
    /\ v1_is_listening' = FALSE
    /\ vh_calls' = vh_calls + 1
    /\ done_log' = Logged(command, is_paused, is_muted, should_quit, vh_calls')
    /\ UNCHANGED <<vadRest, is_paused, robotVars, fileVars, since_check, command,
                   cmd_id, v1_thread, applied, read_failed>>

\* VoiceHandler.resume_listening: self.is_listening = True
ResumeListening ==
    /\ MainStep("resume_call", "resume_start")
    /\ v1_is_listening' = TRUE
    /\ vh_calls' = vh_calls + 1
    /\ UNCHANGED <<vadRest, is_paused, robotVars, fileVars, since_check, command,
                   cmd_id, v1_thread, logVars>>

\* VoiceHandler.resume_listening: the is_alive test and the new thread
ResumeStart ==
    /\ MainStep("resume_start", "paused_check")
    /\ v1_thread' = IF v1_thread = "dead" THEN "test" ELSE v1_thread
    /\ done_log' = Logged(command, is_paused, is_muted, should_quit, vh_calls)
    /\ UNCHANGED <<vadRest, is_paused, robotVars, fileVars, since_check, command,
                   cmd_id, v1_is_listening, vh_calls, applied, read_failed>>

\* _main_loop: if self.robot_state.is_paused
PausedCheck ==
    /\ mpc = "paused_check"
    /\ mpc' = IF is_paused THEN "paused_sleep" ELSE "quit_check"
    /\ UNCHANGED <<vadRest, is_paused, robotVars, fileVars, since_check, command,
                   cmd_id, v1Vars, logVars>>

\* _main_loop: if self.robot_state.should_quit: break
QuitCheck ==
    /\ mpc = "quit_check"
    /\ mpc' = IF should_quit THEN "cleanup" ELSE "idle_sleep"
    /\ UNCHANGED <<vadRest, is_paused, robotVars, fileVars, since_check, command,
                   cmd_id, v1Vars, logVars>>

\* cleanup: voice_handler.cleanup() stops the listening
Cleanup ==
    /\ MainStep("cleanup", "done")
    /\ v1_is_listening' = FALSE
    /\ UNCHANGED <<vadRest, is_paused, robotVars, fileVars, since_check, command,
                   cmd_id, v1_thread, vh_calls, logVars>>

\* ------------------------------------------------------------ VoiceHandler thread
V1Step(from, to) ==
    /\ v1_thread = from
    /\ v1_thread' = to
    /\ UNCHANGED <<vadRest, is_paused, robotVars, fileVars, pollVars,
                   v1_is_listening, vh_calls, logVars>>

\* _listen_loop: while self.is_listening
V1Test ==
    \/ v1_is_listening /\ V1Step("test", "body")
    \/ ~v1_is_listening /\ V1Step("test", "exiting")

\* _listen_loop: one pass of the body (the paused sleep, the playback sleep or
\* recognizer.listen)
V1Body == V1Step("body", "test")

\* the thread's function has returned; is_alive() turns false
V1Exit == V1Step("exiting", "dead")

\* ------------------------------------------------------------ TerminalControl thread
TerminalStep(from, to) ==
    /\ tpc = from
    /\ tpc' = to

\* _control_loop reads ' ' and calls _toggle_pause
TerminalKeyPause(limit) ==
    /\ TerminalStep("idle", "toggle")
    /\ keys < limit
    /\ keys' = keys + 1
    /\ UNCHANGED <<vadOnly, is_paused, robotVars, fileVars, pollVars, v1Vars, logVars>>

\* toggle_pause: self.is_paused = not self.is_paused
TerminalTogglePause ==
    /\ tpc = "toggle"
    /\ is_paused' = ~is_paused
    /\ tpc' = IF is_paused' THEN "pause_call" ELSE "resume_call"
    /\ UNCHANGED <<vadOnly, keys, robotVars, fileVars, pollVars, v1Vars, logVars>>

\* toggle_pause: self.voice_handler.pause_listening()
TerminalPauseListening ==
    /\ TerminalStep("pause_call", "idle")
    /\ v1_is_listening' = FALSE
    /\ vh_calls' = vh_calls + 1
    /\ UNCHANGED <<vadOnly, keys, is_paused, robotVars, fileVars, pollVars,
                   v1_thread, logVars>>

\* toggle_pause: self.voice_handler.resume_listening(), self.is_listening = True
TerminalResumeListening ==
    /\ TerminalStep("resume_call", "resume_start")
    /\ v1_is_listening' = TRUE
    /\ vh_calls' = vh_calls + 1
    /\ UNCHANGED <<vadOnly, keys, is_paused, robotVars, fileVars, pollVars,
                   v1_thread, logVars>>

\* resume_listening: the is_alive test and the new thread
TerminalResumeStart ==
    /\ TerminalStep("resume_start", "idle")
    /\ v1_thread' = IF v1_thread = "dead" THEN "test" ELSE v1_thread
    /\ UNCHANGED <<vadOnly, keys, is_paused, robotVars, fileVars, pollVars,
                   v1_is_listening, vh_calls, logVars>>

\* a mute key that also asks the host loop to quit
TerminalKeyMuteQuits(limit) ==
    /\ tpc = "idle"
    /\ keys < limit
    /\ keys' = keys + 1
    /\ is_muted' = ~is_muted
    /\ should_quit' = TRUE
    /\ UNCHANGED <<vadOnly, tpc, is_paused, conv, fileVars, pollVars, v1Vars,
                   logVars>>

\* _control_loop reads 'm' and calls _toggle_mute: self.is_muted = not self.is_muted
TerminalKeyMute(limit) ==
    /\ tpc = "idle"
    /\ keys < limit
    /\ keys' = keys + 1
    /\ is_muted' = ~is_muted
    /\ UNCHANGED <<vadOnly, tpc, is_paused, should_quit, conv, fileVars, pollVars,
                   v1Vars, logVars>>

\* ------------------------------------------------------------ VoiceHandler callers
OwnerRest == <<vadCore, termVars, is_paused, robotVars, fileVars, pollVars, logVars>>

\* start_listening: if self.is_listening: return
StartCheck(limit) ==
    /\ opc = "idle"
    /\ starts < limit
    /\ starts' = starts + 1
    /\ opc' = IF v1_is_listening THEN "idle" ELSE "start_thread"
    /\ UNCHANGED <<OwnerRest, orphans, v1Vars>>

\* start_listening: self.is_listening = True, self.audio_thread = Thread(...),
\* start(); the thread audio_thread named before runs on unless it has returned
StartThread ==
    /\ opc = "start_thread"
    /\ opc' = "idle"
    /\ v1_is_listening' = TRUE
    /\ orphans' = IF v1_thread = "dead" THEN orphans ELSE Append(orphans, v1_thread)
    /\ v1_thread' = "test"
    /\ UNCHANGED <<OwnerRest, starts, vh_calls>>

\* stop_listening: self.is_listening = False
V1StopListening ==
    /\ opc = "idle"
    /\ opc' = "join"
    /\ v1_is_listening' = FALSE
    /\ UNCHANGED <<OwnerRest, starts, orphans, v1_thread, vh_calls>>

\* stop_listening: self.audio_thread.join(timeout=1) returns, the thread having
\* returned or still being in a pass of the body that outlasts the timeout
\* (recognizer.listen with phrase_time_limit=2, time.sleep(5))
StopJoin ==
    /\ opc = "join"
    /\ opc' = "idle"
    /\ v1_thread \in {"dead", "body"}
    /\ UNCHANGED <<OwnerRest, starts, orphans, v1Vars>>

OrphanStep(i, from, to) ==
    /\ orphans[i] = from
    /\ orphans' = [orphans EXCEPT ![i] = to]
    /\ UNCHANGED <<OwnerRest, opc, starts, v1Vars>>

\* _listen_loop of a thread audio_thread no longer names: while self.is_listening
OrphanTest ==
    \E i \in DOMAIN orphans :
        \/ v1_is_listening /\ OrphanStep(i, "test", "body")
        \/ ~v1_is_listening /\ OrphanStep(i, "test", "exiting")

\* _listen_loop of such a thread: one pass of the body
OrphanBody == \E i \in DOMAIN orphans : OrphanStep(i, "body", "test")

\* the function of such a thread has returned
OrphanExit == \E i \in DOMAIN orphans : OrphanStep(i, "exiting", "dead")

\* ------------------------------------------------------------ control file writers
\* control_spark.send_command, or any writer of the file: raw is the text written
\* and token the command it stands for
SendCommand(token, raw, limit) ==
    /\ writes < limit
    /\ writes' = writes + 1
    /\ cfile' = [exists |-> TRUE, text |-> raw, id |-> writes + 1]
    /\ intent' = Append(intent, [token |-> token, raw |-> raw])
    /\ UNCHANGED <<vadRest, is_paused, robotVars, pollVars, v1Vars, logVars>>

\* ------------------------------------------------------------ control specification
InitCtl == InitVad /\ noise_floor = 50

MainNext ==
    \/ PollTime
    \/ PollRead
    \/ PollReadError
    \/ PollClear
    \/ PollClearError
    \/ ProcessGlobalCommand
    \/ TogglePause
    \/ PauseListening
    \/ ResumeListening
    \/ ResumeStart
    \/ PausedCheck
    \/ MainSleep("paused_sleep", PAUSED_SLEEP_MS)
    \/ QuitCheck
    \/ MainSleep("idle_sleep", IDLE_SLEEP_MS)
    \/ Cleanup

NextCtl ==
    \/ MainNext
    \/ V1Test
    \/ V1Body
    \/ V1Exit
    \/ \E token \in Tokens : SendCommand(token, token, MaxWrites)

SpecCtl == InitCtl /\ [][NextCtl]_vars

\* The host thread keeps running.
FairSpecCtl == SpecCtl /\ WF_vars(MainNext)

\* ------------------------------------------------------------ terminal specification
\* The host loop with its poll of the control file, a writer of the file, the
\* VoiceHandler thread, and the TerminalControl thread handling the pause and
\* mute keys.
NextTerminal ==
    \/ MainNext
    \/ V1Test
    \/ V1Body
    \/ V1Exit
    \/ \E token \in Tokens : SendCommand(token, token, MaxTerminalWrites)
    \/ TerminalKeyPause(MaxKeys)
    \/ TerminalTogglePause
    \/ TerminalPauseListening
    \/ TerminalResumeListening
    \/ TerminalResumeStart
    \/ TerminalKeyMute(MaxKeys)

SpecTerminal == InitCtl /\ [][NextTerminal]_vars

\* ------------------------------------------------------------ mute specification
\* The host loop applying the commands written to the control file,
\* and a caller of speak_text.
MuteHorizon == StartTime + MuteHorizonMs

NextMute ==
    \/ MainNext
    \/ \E token \in Tokens : SendCommand(token, token, MaxWrites)
    \/ (SpeakCall(1, MuteTextLen) /\ UNCHANGED <<tapeVars, restVars>>)
    \/ (SpeakCheck(1) /\ UNCHANGED <<tapeVars, restVars>>)
    \/ (SpeakSet(1) /\ UNCHANGED <<tapeVars, restVars>>)
    \/ (SpeakPlaying(1, MuteHorizon) /\ UNCHANGED <<tapeVars, restVars>>)
    \/ (SpeakFinished(1) /\ UNCHANGED <<tapeVars, restVars>>)
    \/ (SpeakStop(1) /\ UNCHANGED <<tapeVars, restVars>>)
    \/ (SpeakFinActive(1) /\ UNCHANGED <<tapeVars, restVars>>)
    \/ (SpeakFinEnd(1) /\ UNCHANGED <<tapeVars, restVars>>)

SpecMute == InitCtl /\ [][NextMute]_vars

\* ------------------------------------------------------------ no-command specification
\* Texts that are no command: nothing, whitespace, and words outside the vocabulary
BlankTexts == {<<>>, <<" ">>, <<"\n">>, <<" ", "\t", "\n">>}
ForeignTexts == {<<"S", "T", "O", "P">>, <<"p", "a", "u", "s">>,
                 <<"P", "A", "U", "S", "E", "D">>, <<"m", "u", "t", "e", "d", "\n">>,
                 <<"Q", "U", "I", "T", "!">>, <<"P", "A", "U", "S", "E", " ", "Q", "U", "I", "T">>}

\* The host loop comes to its poll with the control file absent, or holding a
\* text that is no command; commands are written later. The system is running
\* or has been paused from the terminal, its VoiceHandler thread then ended.
InitForeign ==
    /\ StreamOpened
    /\ InitCapture
    /\ noise_floor = 50
    /\ tape = <<>>
    /\ is_paused \in BOOLEAN
    /\ is_muted = FALSE
    /\ should_quit = FALSE
    /\ conv = SomeConversation
    /\ \/ cfile = EmptyFile /\ writes = 0 /\ intent = <<>>
       \/ \E raw \in BlankTexts \cup ForeignTexts :
             /\ cfile = [exists |-> TRUE, text |-> raw, id |-> 1]
             /\ writes = 1
             /\ intent = <<[token |-> <<>>, raw |-> raw]>>
    /\ since_check = CONTROL_CHECK_INTERVAL_MS
    /\ mpc = "loop"
    /\ command = <<>>
    /\ cmd_id = 0
    /\ v1_is_listening = ~is_paused
    /\ v1_thread = IF is_paused THEN "dead" ELSE "test"
    /\ vh_calls = IF is_paused THEN 1 ELSE 0
    /\ applied = <<>>
    /\ done_log = <<>>
    /\ read_failed = {}
    /\ tpc = "idle" /\ keys = 0

NextForeign ==
    \/ MainNext
    \/ V1Test
    \/ V1Body
    \/ V1Exit
    \/ \E token \in Tokens : SendCommand(token, token, MaxWrites)

SpecForeign == InitForeign /\ [][NextForeign]_vars

\* ------------------------------------------------------------ listening specification
\* The VoiceHandler threads, a caller of start_listening and stop_listening, and
\* the TerminalControl thread pausing and resuming.
NextListen ==
    \/ V1Test \/ V1Body \/ V1Exit
    \/ OrphanTest \/ OrphanBody \/ OrphanExit
    \/ StartCheck(MaxStarts) \/ StartThread
    \/ V1StopListening \/ StopJoin
    \/ TerminalKeyPause(MaxKeys) \/ TerminalTogglePause
    \/ TerminalPauseListening \/ TerminalResumeListening \/ TerminalResumeStart

SpecListen == InitCtl /\ [][NextListen]_vars

\* ------------------------------------------------------------ parsing specification
LeftPaddings == {<<>>, <<" ">>}
RightPaddings == {<<>>, <<"\n">>}

\* The host loop comes to its poll with one text in the control file: a token
\* in any casing, with or without whitespace around it. The system is running
\* or has been paused from the terminal, its VoiceHandler thread then ended.
InitParse ==
    /\ StreamOpened
    /\ InitCapture
    /\ noise_floor = 50
    /\ tape = <<>>
    /\ is_paused \in BOOLEAN
    /\ is_muted = FALSE
    /\ should_quit = FALSE
    /\ conv = SomeConversation
    /\ \E token \in Tokens : \E mask \in SUBSET (1..Len(token)) :
          \E l \in LeftPaddings, r \in RightPaddings :
              LET raw == l \o Casing(token, mask) \o r
              IN  /\ cfile = [exists |-> TRUE, text |-> raw, id |-> 1]
                  /\ intent = <<[token |-> token, raw |-> raw]>>
    /\ writes = 1
    /\ since_check = CONTROL_CHECK_INTERVAL_MS
    /\ mpc = "loop"
    /\ command = <<>>
    /\ cmd_id = 0
    /\ v1_is_listening = ~is_paused
    /\ v1_thread = IF is_paused THEN "dead" ELSE "test"
    /\ vh_calls = IF is_paused THEN 1 ELSE 0
    /\ applied = <<>>
    /\ done_log = <<>>
    /\ read_failed = {}
    /\ tpc = "idle" /\ keys = 0

NextParse ==
    \/ MainNext
    \/ V1Test
    \/ V1Body
    \/ V1Exit

SpecParse == InitParse /\ [][NextParse]_vars

\* ------------------------------------------------------------ _init_stream
\* get_device_info_by_index(d), or get_default_input_device_info() for None:
\* the index of the device described, NoDevice when the call raises
InfoDevice(d) ==
    IF d = NoDevice THEN default_idx
    ELSE IF d \in Devices THEN d ELSE NoDevice

\* int(info["maxInputChannels"]) if info else 1
MaxChannelsOf(d) ==
    IF InfoDevice(d) = NoDevice THEN 1 ELSE max_in[InfoDevice(d)]

\* int(info["defaultSampleRate"]) if info else Config.SAMPLE_RATE
DefaultRateOf(d) ==
    IF InfoDevice(d) = NoDevice THEN SAMPLE_RATE ELSE def_rate[InfoDevice(d)]

\* list(dict.fromkeys(seq)): the first occurrence of each element, in order
RECURSIVE Dedupe(_)
Dedupe(seq) ==
    IF seq = <<>> THEN <<>>
    ELSE LET init == Dedupe(SubSeq(seq, 1, Len(seq) - 1))
             last == seq[Len(seq)]
         IN  IF \E i \in DOMAIN init : init[i] = last THEN init
             ELSE Append(init, last)

RateOptions(d) == Dedupe(<<SAMPLE_RATE, DefaultRateOf(d), 16000, 44100, 48000>>)

ChannelOptions(d) == IF MaxChannelsOf(d) >= 2 THEN <<1, 2>> ELSE <<1>>

\* the candidates of lines 60-70
DeviceCandidates ==
    LET configured == IF mic_index # NoDevice THEN <<mic_index>> ELSE <<>>
        both == IF default_idx # NoDevice /\ (\A i \in DOMAIN configured :
                                                configured[i] # default_idx)
                THEN Append(configured, default_idx)
                ELSE configured
    IN  IF both = <<>> THEN <<NoDevice>> ELSE both

\* a device PortAudio can open an input stream on at all
Openable(d) == InfoDevice(d) # NoDevice /\ max_in[InfoDevice(d)] >= 1

InitStreamStep(from, to) ==
    /\ ipc = from
    /\ ipc' = to
    /\ UNCHANGED <<notDev, envVars>>

\* lines 59-70
InitStreamCandidates ==
    /\ InitStreamStep("start", "device")
    /\ device_candidates' = DeviceCandidates
    /\ di' = 1
    /\ UNCHANGED <<rate_options, ri, channel_options, ci, max_channels, sessVars>>

\* for device_index in device_candidates: lines 72-89
InitStreamDevice ==
    /\ ipc = "device"
    /\ IF di > Len(device_candidates)
       THEN /\ ipc' = "end"
            /\ UNCHANGED <<max_channels, rate_options, channel_options, ri>>
       ELSE /\ ipc' = "rate"
            /\ max_channels' = MaxChannelsOf(device_candidates[di])
            /\ rate_options' = RateOptions(device_candidates[di])
            /\ channel_options' = ChannelOptions(device_candidates[di])
            /\ ri' = 1
    /\ UNCHANGED <<notDev, envVars, device_candidates, di, ci, sessVars>>

\* for rate in rate_options
InitStreamRate ==
    /\ ipc = "rate"
    /\ IF ri > Len(rate_options)
       THEN ipc' = "device" /\ di' = di + 1 /\ UNCHANGED ci
       ELSE ipc' = "chan" /\ ci' = 1 /\ UNCHANGED di
    /\ UNCHANGED <<notDev, envVars, device_candidates, max_channels, rate_options,
                   ri, channel_options, sessVars>>

\* for ch in channel_options: if ch > max_channels: continue
InitStreamChannel ==
    /\ ipc = "chan"
    /\ IF ci > Len(channel_options)
       THEN ipc' = "after_ch" /\ UNCHANGED ci
       ELSE IF channel_options[ci] > max_channels
            THEN ipc' = "chan" /\ ci' = ci + 1
            ELSE ipc' = "open" /\ UNCHANGED ci
    /\ UNCHANGED <<notDev, envVars, device_candidates, di, max_channels,
                   rate_options, ri, channel_options, sessVars>>

Attempt(ok) == [device |-> device_candidates[di], rate |-> rate_options[ri],
                ch |-> channel_options[ci], ok |-> ok]

\* self.audio.open succeeds: lines 95-106
InitStreamOpenOk ==
    /\ InitStreamStep("open", "after_ch")
    /\ Openable(device_candidates[di])
    /\ attempts' = Append(attempts, Attempt(TRUE))
    /\ stream' = Len(attempts) + 1
    /\ open_streams' = open_streams \cup {Len(attempts) + 1}
    /\ sample_rate' = rate_options[ri]
    /\ channels' = channel_options[ci]
    /\ UNCHANGED <<device_candidates, di, max_channels, rate_options, ri,
                   channel_options, ci>>

\* An open that is tried again after it failed.
InitStreamOpenFailRetries ==
    /\ InitStreamStep("open", "chan")
    /\ Len(attempts) < MaxRetries
    /\ attempts' = Append(attempts, Attempt(FALSE))
    /\ UNCHANGED <<device_candidates, di, max_channels, rate_options, ri,
                   channel_options, ci, stream, sample_rate, channels,
                   open_streams>>

\* self.audio.open raises: lines 107-108
InitStreamOpenFail ==
    /\ InitStreamStep("open", "chan")
    /\ attempts' = Append(attempts, Attempt(FALSE))
    /\ ci' = ci + 1
    /\ UNCHANGED <<device_candidates, di, max_channels, rate_options, ri,
                   channel_options, stream, sample_rate, channels, open_streams>>

\* if self.stream: break (line 109), else the next rate
InitStreamAfterChannels ==
    /\ ipc = "after_ch"
    /\ IF stream # NoStream
       THEN ipc' = "device" /\ di' = di + 1 /\ UNCHANGED ri
       ELSE ipc' = "rate" /\ ri' = ri + 1 /\ UNCHANGED di
    /\ UNCHANGED <<notDev, envVars, device_candidates, max_channels, rate_options,
                   channel_options, ci, sessVars>>

\* if not self.stream: raise RuntimeError (lines 112-113)
InitStreamEnd ==
    /\ ipc = "end"
    /\ ipc' = IF stream = NoStream THEN "raised" ELSE "ready"
    /\ UNCHANGED <<notDev, envVars, loopVars, sessVars>>

\* ------------------------------------------------------------ stream specification
\* The host: the configured index, the default input device (NoDevice when the
\* lookup raises) and what each device reports.
InitHost ==
    /\ mic_index \in Devices \cup {MissingDevice}
    /\ default_idx \in Devices \cup {NoDevice}
    /\ max_in \in [Devices -> {0, 1, 2}]
    /\ def_rate \in [Devices -> {16000, 22050, 48000}]

InitStream ==
    /\ InitRobot
    /\ InitCapture
    /\ noise_floor = 50
    /\ is_paused = FALSE
    /\ tape = <<>>
    /\ InitHost
    /\ ipc = "start"
    /\ device_candidates = <<>> /\ di = 0
    /\ max_channels = 0 /\ rate_options = <<>> /\ ri = 0
    /\ channel_options = <<>> /\ ci = 0
    /\ stream = NoStream /\ sample_rate = SAMPLE_RATE /\ channels = 1
    /\ open_streams = {} /\ attempts = <<>>

NextStream ==
    \/ InitStreamCandidates
    \/ InitStreamDevice
    \/ InitStreamRate
    \/ InitStreamChannel
    \/ InitStreamOpenOk
    \/ InitStreamOpenFail
    \/ InitStreamAfterChannels
    \/ InitStreamEnd

SpecStream == InitStream /\ [][NextStream]_vars

\* ------------------------------------------------------------ cleanup
Ended == {"exit", "crashed"}

CleanupStep(from, to) ==
    /\ kpc = from
    /\ kpc' = to
    /\ UNCHANGED <<now, noise_floor, is_paused, gateVars, stampVars, capVars,
                   handoffs, histVars, speakVars, tapeVars, played, orderVars,
                   ownerVars, ctlVars, envVars, ipc, loopVars, stream, sample_rate,
                   channels, attempts>>

\* self.stop_listening(): self._stop_event.set(), then listen_thread.join(timeout=1)
CleanupStopListening ==
    /\ ipc = "ready"
    /\ CleanupStep("idle", "join")
    /\ stop_event' = TRUE
    /\ join_at' = now
    /\ UNCHANGED open_streams

\* join returns when the thread has ended or the timeout has passed
CleanupJoin ==
    /\ CleanupStep("join", "stop_stream")
    /\ cpc \in Ended \/ now - join_at >= JOIN_TIMEOUT_MS
    /\ UNCHANGED <<stop_event, join_at, open_streams>>

\* if self.stream: self.stream.stop_stream()
CleanupStopStream ==
    /\ CleanupStep("stop_stream", IF stream # NoStream THEN "close" ELSE "terminate")
    /\ UNCHANGED <<stop_event, join_at, open_streams>>

\* stop_stream raises: except Exception prints, cleanup returns
CleanupStopStreamRaises ==
    /\ stream # NoStream
    /\ CleanupStep("stop_stream", "failed")
    /\ UNCHANGED <<stop_event, join_at, open_streams>>

\* self.stream.close()
CleanupClose ==
    /\ CleanupStep("close", "terminate")
    /\ open_streams' = open_streams \ {stream}
    /\ UNCHANGED <<stop_event, join_at>>

\* self.audio.terminate() closes every stream of the PyAudio object;
\* pygame.mixer.quit()
CleanupTerminate ==
    /\ CleanupStep("terminate", "done")
    /\ open_streams' = {}
    /\ UNCHANGED <<stop_event, join_at>>

\* ------------------------------------------------------------ stop specification
\* A handler is constructed on a host with two one-channel devices, its capture
\* thread runs on a device that delivers 10 frames of RMS 200 and then frames of
\* RMS 10 for ever, is_paused is toggled at any moment, and cleanup is called at
\* any moment.
StopHorizon == StartTime + StopHorizonMs

InitStop ==
    /\ InitRobot
    /\ InitCapture
    /\ noise_floor = 50
    /\ is_paused = FALSE
    /\ tape = Repeat(200, 10)
    /\ mic_index = 0
    /\ default_idx \in Devices
    /\ max_in = [d \in Devices |-> 1]
    /\ def_rate = [d \in Devices |-> SAMPLE_RATE]
    /\ ipc = "start"
    /\ device_candidates = <<>> /\ di = 0
    /\ max_channels = 0 /\ rate_options = <<>> /\ ri = 0
    /\ channel_options = <<>> /\ ci = 0
    /\ stream = NoStream /\ sample_rate = SAMPLE_RATE /\ channels = 1
    /\ open_streams = {} /\ attempts = <<>>

\* the device delivers the next frame of the tape, and silence after it
NextFrame == IF tape # <<>> THEN Head(tape) ELSE 10

TakeNextFrame ==
    IF tape # <<>> THEN TakeFrame ELSE UNCHANGED tapeVars

\* the steps of the capture thread, started once the handler is constructed
CaptureStop ==
    /\ ipc = "ready"
    /\ \/ (LoopTop /\ UNCHANGED <<tapeVars, restVars>>)
       \/ (GateCheck /\ UNCHANGED <<tapeVars, restVars>>)
       \/ (CooldownCheck /\ UNCHANGED <<tapeVars, restVars>>)
       \/ (Sleep("gate_sleep", GATE_SLEEP_MS, "top", StopHorizon) /\ UNCHANGED <<tapeVars, restVars>>)
       \/ (Sleep("cool_sleep", GATE_SLEEP_MS, "top", StopHorizon) /\ UNCHANGED <<tapeVars, restVars>>)
       \/ (Sleep("acc_sleep", GATE_SLEEP_MS, "acc_top", StopHorizon) /\ UNCHANGED <<tapeVars, restVars>>)
       \/ (TakeNextFrame /\ ReadFrame(NextFrame) /\ UNCHANGED restVars)
       \/ (AccTop /\ UNCHANGED <<tapeVars, restVars>>)
       \/ (AccGate /\ UNCHANGED <<tapeVars, restVars>>)
       \/ (TakeNextFrame /\ AccRead(NextFrame, MAX_RECORDING_MS) /\ UNCHANGED restVars)
       \/ (Dispatch /\ UNCHANGED <<tapeVars, restVars>>)

NextStop ==
    \/ NextStream
    \/ CaptureStop
    \/ (ipc = "ready" /\ TogglePauseBare /\ UNCHANGED <<tapeVars, restVars>>)
    \/ CleanupStopListening
    \/ CleanupJoin
    \/ CleanupStopStream
    \/ CleanupStopStreamRaises
    \/ CleanupClose
    \/ CleanupTerminate

SpecStop == InitStop /\ [][NextStop]_vars

\* ------------------------------------------------------------ claims
AccPcs == {"acc_top", "acc_gate", "acc_sleep", "acc_read", "dispatch"}

NoUtterance == speech_ms = 0 /\ silence_ms = 0 /\ total_ms = 0 /\ buffer = 0

\* C1: the capture loop never reads a frame from the device at a moment when
\* _playback_active is true or now < _playback_end_time.
C1_NoReadWhileGateClosed == ~gated_read

\* C2: an utterance is handed off exactly when its trailing silence and speech
\* meet the closing test or its length reached MAX_RECORDING_MS: every hand-off
\* is of such an utterance, and an open utterance in that situation is on its
\* way to the hand-off.
C2_HandoffExactlyWhenClosedOrMax ==
    /\ \A i \in DOMAIN handoffs :
          \/ Closed(handoffs[i].silence_ms, handoffs[i].speech_ms)
          \/ handoffs[i].total_ms >= MAX_RECORDING_MS
    /\ (total_ms > 0 /\ (Closed(silence_ms, speech_ms) \/ total_ms >= MAX_RECORDING_MS))
          => cpc \in {"dispatch", "acc_top"}

\* C3: as long as no frame read had an RMS above the threshold, no utterance is
\* open, the capture thread is outside the accumulation loop and no hand-off
\* thread was started.
C3_QuietNeverOpens ==
    ~loud => (cpc \notin AccPcs /\ NoUtterance /\ handoffs = <<>>)

\* a frame exactly at the threshold was read, nothing louder before it, and the
\* loop is back at its top
C3_Witness ==
    /\ ~loud
    /\ 2 * last_rms = Threshold2(noise_floor)
    /\ cpc = "top"

\* C4: of two _process_audio invocations whose debounce tests ran less than
\* DEBOUNCE_MS apart, at most one delivers a callback.
C4_OneCallbackPerDebounceInterval ==
    \A i, j \in DOMAIN handoffs :
        (/\ i < j
         /\ handoffs[i].pc = "delivered"
         /\ handoffs[j].pc = "delivered")
        => handoffs[j].current_time - handoffs[i].current_time >= DEBOUNCE_MS

\* C10: with noise floor 50 the threshold is 125; on 10 frames of RMS 200
\* followed by frames of RMS 10 there is never more than one hand-off, the
\* utterance goes to its hand-off with speech_ms = 300, and once 15 silent frames
\* were read the hand-off has happened.
C10_ScenarioOneHandoff ==
    /\ Threshold2(noise_floor) = 2 * 125
    /\ Len(handoffs) <= 1
    /\ cpc = "dispatch" => speech_ms = 300
    /\ \A i \in DOMAIN handoffs : handoffs[i].speech_ms = 300
    /\ fed >= 10 + 15 => Len(handoffs) = 1

\* the 15th silent frame was read, after the one hand-off and its cooldown, and
\* opened nothing
C10_Witness ==
    /\ fed = 10 + 15
    /\ Len(handoffs) = 1
    /\ handoffs[1].speech_ms = 300
    /\ cpc = "top"
    /\ total_ms = 0


TogglePcs == {"toggle", "pause_call", "resume_call", "resume_start"}

LastDone == done_log[Len(done_log)]

\* C5: once an UNPAUSE applied while the system was paused has been processed
\* (resume_listening has returned), a capture worker is alive: the VoiceHandler
\* thread has not ended with nobody starting another.
C5_UnpauseRestoresCapture ==
    (/\ done_log # <<>>
     /\ LastDone.cmd = UNPAUSE
     /\ LastDone.vh_calls = vh_calls
     /\ ~is_paused
     /\ v1_is_listening
     /\ mpc \notin TogglePcs)
    => v1_thread # "dead"

\* C6: PAUSE, UNPAUSE, MUTE and UNMUTE are idempotent: processed twice in a row,
\* the second processing leaves is_paused, is_muted and should_quit as the first
\* left them and calls neither pause_listening nor resume_listening.
C6_CommandsIdempotent ==
    (/\ Len(done_log) = 2
     /\ done_log[1].cmd = done_log[2].cmd
     /\ done_log[2].cmd \in {PAUSE, UNPAUSE, MUTE, UNMUTE})
    => /\ done_log[2].is_paused = done_log[1].is_paused
       /\ done_log[2].is_muted = done_log[1].is_muted
       /\ done_log[2].should_quit = done_log[1].should_quit
       /\ done_log[2].vh_calls = done_log[1].vh_calls
       /\ done_log[2].cmd = PAUSE => done_log[2].is_paused
       /\ done_log[2].cmd = UNPAUSE => ~done_log[2].is_paused
       /\ done_log[2].cmd = MUTE => done_log[2].is_muted
       /\ done_log[2].cmd = UNMUTE => ~done_log[2].is_muted

C6_Witness ==
    /\ Len(done_log) = 2
    /\ done_log[1].cmd = PAUSE
    /\ done_log[2].cmd = PAUSE
    /\ is_paused
    /\ vh_calls = 1
    /\ Len(applied) = 2

\* C7: once should_quit is true the host loop eventually leaves its loop and
\* begins the cleanup.
C7_QuitLeadsToShutdown == should_quit ~> (mpc \in {"cleanup", "done"})

\* C8: a token written once to the control file is applied at most once: no two
\* applications are of the same write, and at the application the file no
\* longer holds that write.
C8_AppliedAtMostOnce ==
    /\ \A i, j \in DOMAIN applied : i # j => applied[i].id # applied[j].id
    /\ mpc = "apply" => cfile.id # cmd_id

C8_Witness ==
    /\ Len(applied) = 1
    /\ writes = 1
    /\ cfile.text = <<>>
    /\ mpc = "read"
    /\ since_check = 0

\* C9: tokens are matched whatever their casing and surrounding whitespace: the
\* command a poll applies is the upper-case token the text was written for, a
\* QUIT in any casing makes should_quit true, and the file is left empty unless
\* written again.
C9_TokensMatchedInAnyCasing ==
    /\ (mpc \in {"clear", "apply"}) => command = intent[cmd_id].token
    /\ \A k \in DOMAIN applied : applied[k].cmd = intent[applied[k].id].token
    /\ (done_log # <<>> /\ \E k \in DOMAIN applied : intent[applied[k].id].token = QUIT)
          => should_quit
    /\ (mpc = "apply" /\ writes = cmd_id) => cfile.text = <<>>

C9_Witness ==
    /\ Len(applied) = 1
    /\ intent[applied[1].id].raw = <<"q", "u", "i", "t">>
    /\ should_quit
    /\ cfile.text = <<>>


\* ------------------------------------------------------------ claims: _init_stream
Combo(a) == <<a.device, a.rate, a.ch>>

\* C11: device selection stops at the first combination that opens: that
\* attempt is the last one made, and it is the session (self.stream,
\* self.sample_rate, self.channels).
C11_StopsAtFirstSuccess ==
    \A i \in DOMAIN attempts :
        attempts[i].ok => /\ i = Len(attempts)
                          /\ stream = i
                          /\ sample_rate = attempts[i].rate
                          /\ channels = attempts[i].ch

\* C12: at most one input stream opened by the handler is open at any moment.
C12_AtMostOneOpenStream == Cardinality(open_streams) <= 1

\* The first device exposing input channels, NoDevice if there is none.
FirstInputDevice ==
    IF \E d \in Devices : max_in[d] >= 1
    THEN CHOOSE d \in Devices : max_in[d] >= 1 /\ \A e \in Devices : max_in[e] >= 1 => d <= e
    ELSE NoDevice

\* The devices in the order of the claim: configured, default, first with input.
PriorityDevices ==
    LET present(d) == IF d = NoDevice THEN <<>> ELSE <<d>>
    IN  Dedupe(present(mic_index) \o present(default_idx) \o present(FirstInputDevice))

\* The combinations of one device in order: each rate with 1 channel, then 2.
RECURSIVE RateCombos(_, _)
RateCombos(d, rates) ==
    IF rates = <<>> THEN <<>>
    ELSE (IF MaxChannelsOf(d) >= 1 THEN <<<<d, Head(rates), 1>>>> ELSE <<>>)
         \o (IF MaxChannelsOf(d) >= 2 THEN <<<<d, Head(rates), 2>>>> ELSE <<>>)
         \o RateCombos(d, Tail(rates))

RECURSIVE PriorityCombos(_)
PriorityCombos(devs) ==
    IF devs = <<>> THEN <<>>
    ELSE RateCombos(Head(devs), RateOptions(Head(devs))) \o PriorityCombos(Tail(devs))

\* C13: the combinations are attempted in priority order: the attempts made are
\* the first ones of the priority list, in its order, and a run that ends
\* without a stream has attempted the whole list.
C13_AttemptsInPriorityOrder ==
    LET order == PriorityCombos(PriorityDevices)
    IN  /\ Len(attempts) <= Len(order)
        /\ \A i \in DOMAIN attempts : Combo(attempts[i]) = order[i]
        /\ ipc = "raised" => Len(attempts) = Len(order)

\* The rates of one device are at most five, its channel counts at most two.
AttemptLimit == Len(device_candidates) * 5 * 2

\* C14: _init_stream raises exactly when every attempt failed, no combination
\* that failed is attempted again, and the attempts are at most the candidate
\* combinations.
C14_FailsIffAllFailed ==
    /\ ipc = "raised" => \A i \in DOMAIN attempts : ~attempts[i].ok
    /\ ipc = "ready" => \E i \in DOMAIN attempts : attempts[i].ok
    /\ \A i, j \in DOMAIN attempts :
          (i < j /\ ~attempts[i].ok) => Combo(attempts[i]) # Combo(attempts[j])
    /\ Len(attempts) <= AttemptLimit

C14_Witness ==
    /\ ipc = "raised"
    /\ Len(device_candidates) = 2
    /\ Len(attempts) >= 8


\* ------------------------------------------------------------ claims: gate and cooldowns
\* C15: speak_text has the gate active from before the playback until it ends;
\* once a playback has ended the gate blocks capture for at least the cooldown
\* max(SPEAKER_COOLDOWN, 0.05 s per character), and a speak_text that is over
\* has left the gate neither active nor without that cooldown.
C15_GateCoversPlaybackAndCooldown ==
    /\ spc[1] \in {"playing", "fin_stop"} => playback_active
    /\ (played.at # 0 /\ now < played.at + CooldownMs(played.len)) => GateClosed
    /\ (played.at # 0 /\ spc[1] \in {"idle", "raised"})
          => /\ ~playback_active
             /\ playback_end_time >= played.at + CooldownMs(played.len)


LastHandoff == handoffs[Len(handoffs)]

\* C16: after a hand-off the capture loop reads no frame and has no utterance
\* open until POST_PROCESSING_COOLDOWN_MS has passed since that hand-off.
C16_NoReadDuringCooldown ==
    (handoffs # <<>> /\ cpc \in {"read"} \cup AccPcs)
    => now - LastHandoff.started >= POST_PROCESSING_COOLDOWN_MS

\* after the cooldown the loop has opened the next utterance
C16_Witness ==
    /\ Len(handoffs) = 1
    /\ cpc = "acc_top"
    /\ total_ms = FRAME_MS
    /\ now = LastHandoff.started + POST_PROCESSING_COOLDOWN_MS


\* ------------------------------------------------------------ claims: pause
\* C17: while is_paused is true no frame is added to an open utterance and its
\* counters stay as they are.
C17_PauseKeepsUtterance == ~paused_acc

\* C18: while is_paused is true the capture loop reads no frame and no
\* recognized text reaches the callback.
C18_PauseSuspendsPipeline ==
    /\ ~paused_read
    /\ \A i \in DOMAIN handoffs : ~handoffs[i].paused

\* ------------------------------------------------------------ claims: hand-off
\* C19: after a hand-off the capture loop goes through its cooldown and comes
\* back to reading frames, whatever the _process_audio thread of that utterance
\* does, a recognize_google call that never returns included (for every
\* hand-off whose cooldown ends within the time followed)
C19_CaptureContinuesAfterHandoff ==
    \A k \in 1..2 :
        (/\ Len(handoffs) = k
         /\ now = handoffs[k].started
         /\ now + POST_PROCESSING_COOLDOWN_MS <= HandoffHorizon)
            ~> (/\ Len(handoffs) = k
                /\ cpc = "read"
                /\ now = handoffs[k].started + POST_PROCESSING_COOLDOWN_MS)

\* the second utterance has been read and handed off while the recognize_google
\* call of the first has not returned
C19_Witness ==
    /\ Len(handoffs) = 2
    /\ handoffs[1].pc = "recognize"
    /\ handoffs[2].started = handoffs[1].started + POST_PROCESSING_COOLDOWN_MS
    /\ cpc = "top"

\* the frames from, from + 1, ..., in this order
Consecutive(ids) == \A j \in 1..(Len(ids) - 1) : ids[j + 1] = ids[j] + 1

\* C20: the buffer holds its frames in arrival order, one thread is started per
\* utterance closed, in the order the utterances closed, each with the frames
\* of its utterance
C20_FramesAndHandoffsInOrder ==
    /\ Len(buf_ids) = buffer
    /\ Consecutive(buf_ids)
    /\ Len(sent) = Len(handoffs)
    /\ \A i \in DOMAIN sent :
          /\ sent[i] # <<>>
          /\ Consecutive(sent[i])
          /\ Len(sent[i]) = handoffs[i].frames
          /\ sent[i][Len(sent[i])] <= fed
          /\ buf_ids # <<>> => sent[i][Len(sent[i])] < buf_ids[1]
    /\ \A i \in 1..(Len(sent) - 1) :
          /\ sent[i][Len(sent[i])] < sent[i + 1][1]
          /\ handoffs[i].started <= handoffs[i + 1].started

\* two utterances handed off, the second made of frames that arrived after
\* those of the first
C20_Witness ==
    /\ Len(sent) = 2
    /\ Len(sent[1]) = 24
    /\ sent[2][1] = 25
    /\ Len(sent[2]) = 24

\* ------------------------------------------------------------ claims: stop and errors
\* C21: once cleanup has returned, the capture thread has ended and no input
\* stream is left open
C21_StoppedReleasesDevice ==
    kpc \in {"done", "failed"} => (cpc \in Ended /\ open_streams = {})

\* C22: a read of the device that raises never ends the capture thread, in the
\* outer loop or while an utterance is accumulated
C22_ReadErrorIsTransient == cpc # "crashed"

\* C23: a recognition that fails invokes no callback, leaves _last_callback_time
\* and the capture loop as they are, and is not tried again: the thread has ended
C23_FailedRecognitionDropped ==
    [][\A i \in DOMAIN handoffs :
          /\ (handoffs[i].pc = "recognize" /\ handoffs'[i].pc = "failed")
                => (last_callback_time' = last_callback_time /\ capVars' = capVars)
          /\ handoffs[i].pc = "failed" => handoffs'[i].pc = "failed"]_vars

\* a recognition failed, no callback was ever made, and the loop is reading
\* frames again after its cooldown
C23_Witness ==
    /\ Len(handoffs) = 1
    /\ handoffs[1].pc = "failed"
    /\ last_callback_time = 0
    /\ cpc = "read"
    /\ now >= handoffs[1].started + POST_PROCESSING_COOLDOWN_MS

\* ------------------------------------------------------------ claims: control errors
\* C24: a read of the control file that raises leaves is_paused, is_muted,
\* should_quit and the file as they are and the host loop goes on to its next
\* step; the command is there for the next poll
C24_ReadErrorSkipsOnePoll ==
    [][(mpc = "read" /\ mpc' = "paused_check" /\ cfile.id # 0)
          => /\ is_paused' = is_paused
             /\ is_muted' = is_muted
             /\ should_quit' = should_quit
             /\ cfile' = cfile
             /\ mpc' = "paused_check"]_vars

\* a command whose read raised has been applied by a later poll
C24_Witness ==
    \E k \in DOMAIN applied :
        /\ applied[k].id \in read_failed
        /\ applied[k].id # 0
        /\ applied[k].cmd = intent[applied[k].id].token

\* ------------------------------------------------------------ claims: terminal control
\* is_paused, is_muted or should_quit takes a new value in this step
FlagChanges ==
    \/ is_paused' # is_paused
    \/ is_muted' # is_muted
    \/ should_quit' # should_quit

\* the step is one of _process_global_command, toggle_pause called by it included
CommandStep == mpc \in {"apply", "toggle"} /\ mpc' # mpc

\* the step is one of the TerminalControl key handlers
KeyStep == keys' # keys \/ tpc' # tpc

\* C25 as stated: the three flags change only in steps of the command processor
C25_FlagsChangeOnlyInCommands == [][FlagChanges => CommandStep]_vars

\* C25: is_paused and is_muted change only in steps of the command processor
\* or of the pause and mute keys of TerminalControl, should_quit only when the
\* command processor applies QUIT, and then to true
C25_FlagsChangeOnlyInCommandsOrKeys ==
    [][/\ (is_paused' # is_paused \/ is_muted' # is_muted)
              => (CommandStep \/ KeyStep)
       /\ should_quit' # should_quit
              => (CommandStep /\ command = QUIT /\ should_quit')]_vars

\* the mute key has muted the system and no command was ever applied
C25_Witness == is_muted /\ applied = <<>> /\ keys = 1

\* ------------------------------------------------------------ claims: long utterances
\* C26 as stated: no utterance is handed off without having met the closing test
C26_UnclosedNeverHandedOff ==
    \A i \in DOMAIN handoffs : Closed(handoffs[i].silence_ms, handoffs[i].speech_ms)

\* C26: an utterance that reaches MAX_RECORDING_MS without meeting the closing
\* test is handed off with all its frames: nothing shorter is handed off
\* unclosed, at MAX_RECORDING_MS the loop is on its way to the hand-off, and
\* once MaxFrames frames were read and no utterance is open the thread was started
C26_MaxLengthHandedOff ==
    /\ \A i \in DOMAIN handoffs :
          \/ Closed(handoffs[i].silence_ms, handoffs[i].speech_ms)
          \/ (handoffs[i].total_ms = MAX_RECORDING_MS /\ handoffs[i].frames = MaxFrames)
    /\ total_ms >= MAX_RECORDING_MS => cpc \in {"acc_top", "dispatch"}
    /\ (fed >= MaxFrames /\ cpc \notin AccPcs) => handoffs # <<>>

\* an utterance of MAX_RECORDING_MS whose speech was too short to close it
\* has been handed off
C26_Witness ==
    /\ Len(handoffs) = 1
    /\ handoffs[1].total_ms = MAX_RECORDING_MS
    /\ handoffs[1].speech_ms < MIN_SPEECH_MS
    /\ handoffs[1].silence_ms >= END_SILENCE_MS

\* ------------------------------------------------------------ claims: classification
\* C27: a frame read opens an utterance, or counts as speech in an open one
\* (silence_ms back to 0, FRAME_MS more speech_ms), exactly when its RMS is
\* strictly above the threshold
C27_SpeechIffStrictlyAbove ==
    [][/\ (cpc = "read" /\ cpc' \in {"top", "acc_top"})
            => (cpc' = "acc_top" <=> Above(last_rms', noise_floor))
       /\ (cpc = "acc_read" /\ total_ms' = total_ms + FRAME_MS)
            => ((speech_ms' = speech_ms + FRAME_MS /\ silence_ms' = 0)
                    <=> Above(last_rms', noise_floor))]_vars

\* ------------------------------------------------------------ claims: mute
\* C28: speak_text starts no playback while is_muted is true
C28_NoPlaybackStartsWhileMuted ==
    [][(spc[1] = "set" /\ spc'[1] = "playing") => ~is_muted]_vars

\* ------------------------------------------------------------ claims: capture workers
\* the _listen_loop threads that are in the loop
LoopRunners ==
    (IF v1_thread \in {"test", "body"} THEN 1 ELSE 0)
    + Cardinality({i \in DOMAIN orphans : orphans[i] \in {"test", "body"}})

\* C29: at most one thread runs the listen loop, whatever calls of
\* start_listening, stop_listening, pause_listening and resume_listening came before
C29_AtMostOneCaptureWorker == LoopRunners <= 1

\* ------------------------------------------------------------ claims: pause commands
\* C30: the toggle_pause call made for a PAUSE command leaves is_paused true, the
\* one made for an UNPAUSE command leaves it false, and a PAUSE or UNPAUSE that
\* makes no call leaves it so too, whatever the TerminalControl thread does
C30_PauseCommandsSetTheFlag ==
    [][/\ (mpc = "toggle" /\ mpc' # "toggle") => (is_paused' = (command = PAUSE))
       /\ (mpc = "apply" /\ mpc' = "paused_check" /\ command \in {PAUSE, UNPAUSE})
             => (is_paused' = (command = PAUSE))]_vars

\* ------------------------------------------------------------ claims: the poller's clear
\* C31: the clearing write of a poll erases only the write that the same poll read,
\* so that no write made between the read and the clear is erased unread
C31_ClearErasesOnlyWhatWasRead ==
    [][(mpc = "clear" /\ mpc' = "apply") => cfile.id = cmd_id]_vars

\* ------------------------------------------------------------ claims: concurrent playback
\* C32: at most one playback is in progress at a time, and _playback_active is
\* true as long as any playback is in progress
C32_OnePlaybackUnderTheGate ==
    /\ Cardinality({s \in Speakers : spc[s] = "playing"}) <= 1
    /\ \A s \in Speakers : spc[s] = "playing" => playback_active

C34_CallbacksInUtteranceOrder ==
    [][\A i \in DOMAIN handoffs :
          (handoffs[i].pc = "recognize" /\ handoffs'[i].pc = "delivered")
             => \A j \in DOMAIN handoffs : j > i => handoffs[j].pc # "delivered"]_vars

\* ------------------------------------------------------------ claims: utterance counters
\* C35: while an utterance is open, FRAME_MS <= total_ms <= MAX_RECORDING_MS,
\* speech_ms >= FRAME_MS, speech_ms + silence_ms <= total_ms and the buffer holds
\* total_ms / FRAME_MS frames; outside it the running loop holds no utterance, so
\* that at most one is open at a time
C35_OpenUtteranceCounters ==
    /\ cpc \in AccPcs =>
          /\ FRAME_MS <= total_ms
          /\ total_ms <= MAX_RECORDING_MS
          /\ speech_ms >= FRAME_MS
          /\ speech_ms + silence_ms <= total_ms
          /\ buffer * FRAME_MS = total_ms
    /\ cpc \notin AccPcs \cup {"crashed"} => NoUtterance

C35_Witness ==
    /\ cpc = "dispatch"
    /\ total_ms = MAX_RECORDING_MS
    /\ buffer = MaxFrames
    /\ speech_ms > FRAME_MS
    /\ silence_ms > 0

\* ------------------------------------------------------------ claims: polls without a command
\* C36: a poll that finds the control file absent, empty or blank changes no flag,
\* no conversation state and not the file; a poll that read a text outside the
\* vocabulary clears the file and changes no flag and no conversation state
C36_PollActsOnlyOnTokens ==
    [][/\ (mpc = "read" /\ mpc' # mpc
             /\ (~cfile.exists \/ Normalize(cfile.text) = <<>>))
          => /\ mpc' = "paused_check"
             /\ cfile' = cfile
             /\ UNCHANGED <<is_paused, is_muted, should_quit, conv>>
       /\ (mpc = "clear" /\ mpc' = "apply" /\ command \notin Tokens)
          => /\ cfile'.exists /\ cfile'.text = <<>>
             /\ UNCHANGED <<is_paused, is_muted, should_quit, conv>>
       /\ (mpc = "apply" /\ mpc' # mpc /\ command \notin Tokens)
          => /\ mpc' = "paused_check"
             /\ UNCHANGED <<is_paused, is_muted, should_quit, conv, cfile>>]_vars

C36_Witness ==
    /\ applied # <<>>
    /\ applied[1].cmd = <<"P", "A", "U", "S", "E", " ", "Q", "U", "I", "T">>
    /\ mpc = "paused_check"
    /\ cfile = [exists |-> TRUE, text |-> <<>>, id |-> 0]
    /\ ~is_paused /\ ~should_quit /\ conv = SomeConversation

\* ------------------------------------------------------------ claims: what a command leaves alone
\* the steps of the host thread inside _process_global_command and the calls it makes
CommandPcs == {"apply", "toggle", "pause_call", "resume_call", "resume_start"}

\* C37: RESET clears the conversation state and leaves the three flags and the
\* voice handler's listening state alone; MUTE and UNMUTE change only is_muted;
\* PAUSE and UNPAUSE change neither is_muted nor should_quit
C37_CommandsChangeOnlyTheirOwnState ==
    [][(mpc \in CommandPcs /\ mpc' # mpc) =>
          /\ command = RESET =>
                /\ mpc = "apply" /\ mpc' = "paused_check"
                /\ conv' = NoConversation
                /\ UNCHANGED <<is_paused, is_muted, should_quit, v1_is_listening,
                               vh_calls>>
          /\ command \in {MUTE, UNMUTE} =>
                /\ mpc = "apply" /\ mpc' = "paused_check"
                /\ UNCHANGED <<is_paused, should_quit, conv, v1_is_listening,
                               vh_calls>>
          /\ command \in {PAUSE, UNPAUSE} =>
                UNCHANGED <<is_muted, should_quit, conv>>]_vars

C37_Witness ==
    /\ Len(applied) = 2
    /\ applied[1].cmd = PAUSE
    /\ applied[2].cmd = RESET
    /\ mpc = "paused_check"
    /\ conv = NoConversation
    /\ is_paused /\ ~v1_is_listening /\ vh_calls = 1

\* ------------------------------------------------------------ claims: should_quit
\* C38: should_quit is false at the start, turns true only when a QUIT command is
\* applied, and never turns false again
C38_ShouldQuitMonotonic ==
    /\ ~should_quit
    /\ [][should_quit' # should_quit
            => /\ ~should_quit /\ should_quit'
               /\ mpc = "apply" /\ mpc' = "paused_check"
               /\ command = QUIT]_vars

C38_Witness ==
    /\ should_quit
    /\ Len(applied) = 2
    /\ applied[1].cmd = QUIT
    /\ applied[2].cmd = RESET
    /\ conv = NoConversation
    /\ mpc = "paused_check"

====
